---- MODULE Spec2Model ----
(***************************************************************************)
(* aqimon: the SDS011 wire codec (19-byte commands, 10-byte responses),    *)
(* the NovaPmReader driver, the serial emulator used by the tests, and the *)
(* OpinionatedReader read cycle.                                           *)
(*                                                                         *)
(* A byte is an integer 0..255, a byte string a sequence of bytes.         *)
(* Python's 0-based half-open slice data[a:b] is SubSeq(data, a+1, b).     *)
(***************************************************************************)
EXTENDS Integers, Sequences, FiniteSets, TLC

(***************************************************************************)
(* Byte constants (sds011/constants.py).                                   *)
(***************************************************************************)
HEAD == 170
TAIL == 171
SUBMIT_TYPE == 180
ALL_SENSOR_ID == <<255, 255>>

GENERAL_RESPONSE == 197
QUERY_RESPONSE == 192

Command_SET_REPORTING_MODE == 2
Command_QUERY == 4
Command_SET_DEVICE_ID == 5
Command_SET_SLEEP == 6
Command_SET_WORKING_PERIOD == 8
Command_CHECK_FIRMWARE_VERSION == 7

OperationType_QUERY == 0
OperationType_SET_MODE == 1

ReportingMode_ACTIVE == 0
ReportingMode_QUERYING == 1

SleepState_SLEEP == 0
SleepState_WORK == 1

Commands ==
    { Command_SET_REPORTING_MODE, Command_QUERY, Command_SET_DEVICE_ID,
      Command_SET_SLEEP, Command_SET_WORKING_PERIOD,
      Command_CHECK_FIRMWARE_VERSION }

OperationTypes == { OperationType_QUERY, OperationType_SET_MODE }
ReportingModes == { ReportingMode_ACTIVE, ReportingMode_QUERYING }
SleepStates == { SleepState_SLEEP, SleepState_WORK }

(***************************************************************************)
(* Bounds of the model.                                                    *)
(***************************************************************************)
\* operand bytes of an enumerated buffer range over 0..MaxOperand
MaxOperand == 2
\* enumerated buffers have 0..MaxBufLen bytes
MaxBufLen == 11
\* the configured sample count of a reader ranges over 0..MaxIterations
MaxIterations == 3
\* the calls before the last that a kept history remembers
HistoryKept == 3
\* the full frames of a draining sleep() that the list of its calls keeps
MaxDrained == 2
\* read_log holds up to MaxRows rows
MaxRows == 4
\* datetimes are counted in half seconds from 0 to MaxHalfSeconds
MaxHalfSeconds == 5

(***************************************************************************)
(* Helpers.                                                                *)
(***************************************************************************)
RECURSIVE SumBytes(_)
\* sum(d for d in data)
SumBytes(s) == IF s = <<>> THEN 0 ELSE Head(s) + SumBytes(Tail(s))

\* b"\x00" * n
Zeros(n) == [i \in 1..n |-> 0]

\* A call's outcome: a returned value, or a raised exception.
Ok(v) == [ok |-> TRUE, val |-> v]
Raise(type, args) == [ok |-> FALSE, exc |-> [type |-> type, args |-> args]]

(***************************************************************************)
(* sds011/responses.py: typed responses built from a received buffer.      *)
(***************************************************************************)
\* ReadResponse.calc_checksum
calc_checksum(self) == SumBytes(self.data) % 256

\* ReadResponse.verify with the response-type check made before the checksum check
verify_type_first(self) ==
    IF self.head # HEAD THEN Raise("IncorrectWrapperException", <<>>)
    ELSE IF self.tail # TAIL THEN Raise("IncorrectWrapperException", <<>>)
    ELSE IF self.cmd_id # self.expected_response_type
        THEN Raise("IncorrectCommandException",
                   <<self.expected_response_type, self.cmd_id>>)
    ELSE IF self.checksum # calc_checksum(self)
        THEN Raise("ChecksumFailedException",
                   <<self.checksum, calc_checksum(self)>>)
    ELSE IF /\ self.expected_response_type # QUERY_RESPONSE
            /\ self.data[1] # self.expected_command_code
        THEN Raise("IncorrectCommandCodeException",
                   <<self.expected_command_code, self.data[1]>>)
    ELSE Ok(self)

\* ReadResponse.verify without the command-code check
verify_no_code(self) ==
    IF self.head # HEAD THEN Raise("IncorrectWrapperException", <<>>)
    ELSE IF self.tail # TAIL THEN Raise("IncorrectWrapperException", <<>>)
    ELSE IF self.checksum # calc_checksum(self)
        THEN Raise("ChecksumFailedException",
                   <<self.checksum, calc_checksum(self)>>)
    ELSE IF self.cmd_id # self.expected_response_type
        THEN Raise("IncorrectCommandException",
                   <<self.expected_response_type, self.cmd_id>>)
    ELSE Ok(self)

\* ReadResponse.verify without the checksum check
verify_no_checksum(self) ==
    IF self.head # HEAD THEN Raise("IncorrectWrapperException", <<>>)
    ELSE IF self.tail # TAIL THEN Raise("IncorrectWrapperException", <<>>)
    ELSE IF self.cmd_id # self.expected_response_type
        THEN Raise("IncorrectCommandException",
                   <<self.expected_response_type, self.cmd_id>>)
    ELSE IF /\ self.expected_response_type # QUERY_RESPONSE
            /\ self.data[1] # self.expected_command_code
        THEN Raise("IncorrectCommandCodeException",
                   <<self.expected_command_code, self.data[1]>>)
    ELSE Ok(self)

\* ReadResponse.verify: the checks in the order of the code; the first
\* failing one raises.
verify(self) ==
    IF self.head # HEAD THEN Raise("IncorrectWrapperException", <<>>)
    ELSE IF self.tail # TAIL THEN Raise("IncorrectWrapperException", <<>>)
    ELSE IF self.checksum # calc_checksum(self)
        THEN Raise("ChecksumFailedException",
                   <<self.checksum, calc_checksum(self)>>)
    ELSE IF self.cmd_id # self.expected_response_type
        THEN Raise("IncorrectCommandException",
                   <<self.expected_response_type, self.cmd_id>>)
    ELSE IF /\ self.expected_response_type # QUERY_RESPONSE
            /\ self.data[1] # self.expected_command_code
        THEN Raise("IncorrectCommandCodeException",
                   <<self.expected_command_code, self.data[1]>>)
    ELSE Ok(self)

\* ReadResponse.__init__: the length check (which raises without an
\* argument), the fields, then verify().
ReadResponse(data, command_code, response_type) ==
    IF Len(data) # 10 THEN Raise("IncompleteReadException", <<>>)
    ELSE verify([head |-> data[1],
                 cmd_id |-> data[2],
                 data |-> SubSeq(data, 3, 8),
                 device_id |-> SubSeq(data, 7, 8),
                 checksum |-> data[9],
                 tail |-> data[10],
                 expected_command_code |-> command_code,
                 expected_response_type |-> response_type])

\* Enum(value) of a one-byte value: ValueError when it is no member.
EnumOf(members, b, fields) ==
    IF b \in members THEN Ok(fields) ELSE Raise("ValueError", <<b>>)

\* int.from_bytes(data[a:a+2], byteorder="big")
FromBytesBig(lo, hi) == 256 * lo + hi

\* int.from_bytes(data[a:a+2], byteorder="little")
FromBytesLittle(lo, hi) == lo + 256 * hi

\* QueryReadResponse.__init__; pm25 and pm10 are kept as the raw integers,
\* the reading being raw / 10.
QueryReadResponse(data) ==
    LET r == ReadResponse(data, Command_QUERY, QUERY_RESPONSE) IN
    IF ~r.ok THEN r
    ELSE Ok(r.val @@ [pm25 |-> FromBytesLittle(data[3], data[4]),
                      pm10 |-> FromBytesLittle(data[5], data[6])])

\* ReportingModeReadResponse.__init__
ReportingModeReadResponse(data) ==
    LET r == ReadResponse(data, Command_SET_REPORTING_MODE, GENERAL_RESPONSE) IN
    IF ~r.ok THEN r
    ELSE IF r.val.data[2] \notin OperationTypes
        THEN Raise("ValueError", <<r.val.data[2]>>)
    ELSE EnumOf(ReportingModes, r.val.data[3],
                r.val @@ [operation_type |-> r.val.data[2],
                          state |-> r.val.data[3]])

\* DeviceIdResponse.__init__
DeviceIdResponse(data) ==
    ReadResponse(data, Command_SET_DEVICE_ID, GENERAL_RESPONSE)

\* SleepWakeReadResponse.__init__
SleepWakeReadResponse(data) ==
    LET r == ReadResponse(data, Command_SET_SLEEP, GENERAL_RESPONSE) IN
    IF ~r.ok THEN r
    ELSE IF r.val.data[2] \notin OperationTypes
        THEN Raise("ValueError", <<r.val.data[2]>>)
    ELSE EnumOf(SleepStates, r.val.data[3],
                r.val @@ [operation_type |-> r.val.data[2],
                          state |-> r.val.data[3]])

\* WorkingPeriodReadResponse.__init__
WorkingPeriodReadResponse(data) ==
    LET r == ReadResponse(data, Command_SET_WORKING_PERIOD, GENERAL_RESPONSE) IN
    IF ~r.ok THEN r
    ELSE EnumOf(OperationTypes, r.val.data[2],
                r.val @@ [operation_type |-> r.val.data[2],
                          interval |-> r.val.data[3]])

\* CheckFirmwareReadResponse.__init__
CheckFirmwareReadResponse(data) ==
    LET r == ReadResponse(data, Command_CHECK_FIRMWARE_VERSION, GENERAL_RESPONSE) IN
    IF ~r.ok THEN r
    ELSE Ok(r.val @@ [year |-> r.val.data[2],
                      month |-> r.val.data[3],
                      day |-> r.val.data[4]])

ResponseClasses ==
    { "QueryReadResponse", "ReportingModeReadResponse", "DeviceIdResponse",
      "SleepWakeReadResponse", "WorkingPeriodReadResponse",
      "CheckFirmwareReadResponse" }

\* cls(data) for a response class named cls
Construct(cls, data) ==
    CASE cls = "QueryReadResponse" -> QueryReadResponse(data)
      [] cls = "ReportingModeReadResponse" -> ReportingModeReadResponse(data)
      [] cls = "DeviceIdResponse" -> DeviceIdResponse(data)
      [] cls = "SleepWakeReadResponse" -> SleepWakeReadResponse(data)
      [] cls = "WorkingPeriodReadResponse" -> WorkingPeriodReadResponse(data)
      [] cls = "CheckFirmwareReadResponse" -> CheckFirmwareReadResponse(data)

\* The response type and command code each class hands to ReadResponse.
ExpectedResponseType(cls) ==
    IF cls = "QueryReadResponse" THEN QUERY_RESPONSE ELSE GENERAL_RESPONSE

ExpectedCommandCode(cls) ==
    CASE cls = "QueryReadResponse" -> Command_QUERY
      [] cls = "ReportingModeReadResponse" -> Command_SET_REPORTING_MODE
      [] cls = "DeviceIdResponse" -> Command_SET_DEVICE_ID
      [] cls = "SleepWakeReadResponse" -> Command_SET_SLEEP
      [] cls = "WorkingPeriodReadResponse" -> Command_SET_WORKING_PERIOD
      [] cls = "CheckFirmwareReadResponse" -> Command_CHECK_FIRMWARE_VERSION

(***************************************************************************)
(* sds011/__init__.py: NovaPmReader.  Each command-sending method is the   *)
(* outcome of building its command: Ok(frame) is the frame handed to       *)
(* ser.write, Raise(..) an exception raised before any I/O.                *)
(***************************************************************************)
\* NovaPmReader._cmd_checksum without the reduction mod 256
cmd_checksum_no_mod(data) ==
    IF Len(data) # 15 THEN Raise("AttributeError", <<>>)
    ELSE Ok(SumBytes(data))

\* NovaPmReader._cmd_checksum
_cmd_checksum(data) ==
    IF Len(data) # 15 THEN Raise("AttributeError", <<>>)
    ELSE Ok(SumBytes(data) % 256)

\* NovaPmReader._send_command up to the ser.write call: the full command.
_send_command(cmd) ==
    LET sum == _cmd_checksum(cmd) IN
    IF ~sum.ok THEN sum
    ELSE LET full_command == <<HEAD, SUBMIT_TYPE>> \o cmd \o <<sum.val>> \o <<TAIL>> IN
         IF Len(full_command) # 19 THEN Raise("Exception", <<Len(full_command)>>)
         ELSE Ok(full_command)

\* NovaPmReader.request_data
request_data ==
    _send_command(<<Command_QUERY>> \o Zeros(12) \o ALL_SENSOR_ID)

\* NovaPmReader.request_reporting_mode
request_reporting_mode ==
    _send_command(<<Command_SET_REPORTING_MODE, OperationType_QUERY,
                    ReportingMode_ACTIVE>> \o Zeros(10) \o ALL_SENSOR_ID)

\* NovaPmReader._set_reporting_mode sending ACTIVE whatever mode is asked
set_reporting_mode_always_active(reporting_mode) ==
    _send_command(<<Command_SET_REPORTING_MODE, OperationType_SET_MODE,
                    ReportingMode_ACTIVE>> \o Zeros(10) \o ALL_SENSOR_ID)

\* NovaPmReader._set_reporting_mode: the command it sends (the close and
\* reopen of the stream that follow are steps of the calling action).
_set_reporting_mode(reporting_mode) ==
    _send_command(<<Command_SET_REPORTING_MODE, OperationType_SET_MODE,
                    reporting_mode>> \o Zeros(10) \o ALL_SENSOR_ID)

\* NovaPmReader.request_sleep_state
request_sleep_state ==
    _send_command(<<Command_SET_SLEEP, OperationType_QUERY, 0>>
                  \o Zeros(10) \o ALL_SENSOR_ID)

\* NovaPmReader.set_sleep_state
set_sleep_state(sleep_state) ==
    _send_command(<<Command_SET_SLEEP, OperationType_SET_MODE, sleep_state>>
                  \o Zeros(10) \o ALL_SENSOR_ID)

\* NovaPmReader.sleep
sleep == set_sleep_state(SleepState_SLEEP)

\* NovaPmReader.wake
wake == set_sleep_state(SleepState_WORK)

\* NovaPmReader.set_device_id rejecting only when both lengths are wrong
set_device_id_both(device_id, target_device_id) ==
    IF Len(device_id) # 2 /\ Len(target_device_id) # 2
        THEN Raise("AttributeError", <<Len(device_id), Len(target_device_id)>>)
    ELSE _send_command(<<Command_SET_DEVICE_ID>> \o Zeros(10)
                       \o device_id \o target_device_id)

\* NovaPmReader.set_device_id
set_device_id(device_id, target_device_id) ==
    IF Len(device_id) # 2 \/ Len(target_device_id) # 2
        THEN Raise("AttributeError", <<Len(device_id), Len(target_device_id)>>)
    ELSE _send_command(<<Command_SET_DEVICE_ID>> \o Zeros(10)
                       \o device_id \o target_device_id)

\* NovaPmReader.request_working_period
request_working_period ==
    _send_command(<<Command_SET_WORKING_PERIOD, OperationType_QUERY>>
                  \o Zeros(11) \o ALL_SENSOR_ID)

\* NovaPmReader.set_working_period: the chained comparison
\* 0 >= working_period >= 30, then bytes([working_period]), which raises
\* ValueError outside 0..255.
set_working_period(working_period) ==
    IF 0 >= working_period /\ working_period >= 30
        THEN Raise("AttributeError", <<>>)
    ELSE IF working_period \notin 0..255
        THEN Raise("ValueError", <<working_period>>)
    ELSE _send_command(<<Command_SET_WORKING_PERIOD, OperationType_SET_MODE,
                         working_period>> \o Zeros(10) \o ALL_SENSOR_ID)

\* NovaPmReader.request_firmware_version
request_firmware_version ==
    _send_command(<<Command_CHECK_FIRMWARE_VERSION>> \o Zeros(12)
                  \o ALL_SENSOR_ID)

\* NovaPmReader._read_response on the bytes ser.read(10) returned
_read_response(result) ==
    IF Len(result) # 10 THEN Raise("IncompleteReadException", <<Len(result)>>)
    ELSE Ok(result)

\* NovaPmReader.query_*: _read_response, then the response class
query(cls, result) ==
    LET r == _read_response(result) IN
    IF ~r.ok THEN r ELSE Construct(cls, r.val)

(***************************************************************************)
(* tests/read/sds011/mock_device_serial.py: the emulated serial device.    *)
(***************************************************************************)
\* Python's None
None == [none |-> TRUE]

\* read_checksum
read_checksum(data) ==
    IF Len(data) # 6 THEN Raise("AttributeError", <<>>)
    ELSE Ok(SumBytes(data) % 256)

\* parse_write_data
parse_write_data(data) ==
    IF Len(data) # 19 THEN Raise("AttributeError", <<>>)
    ELSE IF data[3] \notin Commands THEN Raise("ValueError", <<data[3]>>)
    ELSE Ok([raw_data |-> data,
             raw_body_data |-> SubSeq(data, 3, 15),
             command |-> data[3]])

\* Sds011SerialEmulator.__init__: factory defaults
EmulatorInit ==
    [last_write |-> None,
     query_mode |-> ReportingMode_ACTIVE,
     device_id |-> <<1, 1>>,
     sleep_state |-> SleepState_WORK,
     working_period |-> 0,
     firmware_year |-> 1,
     firmware_month |-> 2,
     firmware_day |-> 3]

\* a response that carries the factory device id
_generate_read_factory_id(self, response_type, cmd) ==
    LET cmd_and_id == cmd \o <<1, 1>> IN
    <<HEAD, response_type>> \o cmd_and_id
        \o <<read_checksum(cmd_and_id).val>> \o <<TAIL>>

\* Sds011SerialEmulator._generate_read
_generate_read(self, response_type, cmd) ==
    LET cmd_and_id == cmd \o self.device_id IN
    <<HEAD, response_type>> \o cmd_and_id
        \o <<read_checksum(cmd_and_id).val>> \o <<TAIL>>

\* a device that answers every command with a data frame
EmulatorReadAlwaysData(self) ==
    IF self.last_write = None THEN <<>>
    ELSE _generate_read(self, QUERY_RESPONSE, <<25, 0, 100, 0>>)

\* Sds011SerialEmulator.read
EmulatorRead(self) ==
    IF self.last_write = None THEN <<>>
    ELSE LET lw == self.last_write IN
    IF self.query_mode = ReportingMode_ACTIVE THEN
        IF /\ lw.command = Command_SET_REPORTING_MODE
           /\ lw.raw_body_data[2] = OperationType_SET_MODE
        THEN _generate_read(self, GENERAL_RESPONSE,
                 <<Command_SET_REPORTING_MODE, lw.raw_body_data[2],
                   self.query_mode, 0>>)
        ELSE _generate_read(self, QUERY_RESPONSE, <<25, 0, 100, 0>>)
    ELSE
        CASE lw.command = Command_QUERY ->
                _generate_read(self, QUERY_RESPONSE, <<25, 0, 100, 0>>)
          [] lw.command = Command_SET_REPORTING_MODE ->
                _generate_read(self, GENERAL_RESPONSE,
                    <<Command_SET_REPORTING_MODE, lw.raw_body_data[2],
                      self.query_mode, 0>>)
          [] lw.command = Command_SET_DEVICE_ID ->
                _generate_read(self, GENERAL_RESPONSE,
                    <<Command_SET_DEVICE_ID>> \o Zeros(3))
          [] lw.command = Command_SET_SLEEP ->
                _generate_read(self, GENERAL_RESPONSE,
                    <<Command_SET_SLEEP, lw.raw_body_data[2],
                      self.sleep_state, 0>>)
          [] lw.command = Command_SET_WORKING_PERIOD ->
                _generate_read(self, GENERAL_RESPONSE,
                    <<Command_SET_WORKING_PERIOD, lw.raw_body_data[2],
                      self.working_period, 0>>)
          [] lw.command = Command_CHECK_FIRMWARE_VERSION ->
                _generate_read(self, GENERAL_RESPONSE,
                    <<Command_CHECK_FIRMWARE_VERSION, self.firmware_year,
                      self.firmware_month, self.firmware_day>>)

\* What write leaves behind: the emulator, and None or the exception raised.
Wrote(self, raised) == [emu |-> self, exc |-> raised]

\* Sds011SerialEmulator.write.  last_write is assigned before the enum
\* conversions, so it is kept when one of them raises.
EmulatorWrite(self, data) ==
    LET p == parse_write_data(data) IN
    IF ~p.ok THEN Wrote(self, p.exc)
    ELSE LET lw == p.val
             body == lw.raw_body_data
             s1 == [self EXCEPT !.last_write = lw]
             bad(b) == Wrote(s1, [type |-> "ValueError", args |-> <<b>>]) IN
    IF lw.command = Command_SET_REPORTING_MODE
    THEN IF body[2] \notin OperationTypes THEN bad(body[2])
         ELSE IF body[2] # OperationType_SET_MODE THEN Wrote(s1, None)
         ELSE IF body[3] \notin ReportingModes THEN bad(body[3])
         ELSE Wrote([s1 EXCEPT !.query_mode = body[3]], None)
    ELSE IF lw.command = Command_SET_DEVICE_ID
    THEN Wrote([s1 EXCEPT !.device_id = SubSeq(body, 12, 13)], None)
    ELSE IF lw.command = Command_SET_SLEEP
    THEN IF body[2] \notin OperationTypes THEN bad(body[2])
         ELSE IF body[2] # OperationType_SET_MODE THEN Wrote(s1, None)
         ELSE IF body[3] \notin SleepStates THEN bad(body[3])
         ELSE Wrote([s1 EXCEPT !.sleep_state = body[3]], None)
    ELSE IF lw.command = Command_SET_WORKING_PERIOD
    THEN IF body[2] \notin OperationTypes THEN bad(body[2])
         ELSE IF body[2] # OperationType_SET_MODE THEN Wrote(s1, None)
         ELSE Wrote([s1 EXCEPT !.working_period = body[3]], None)
    ELSE Wrote(s1, None)

(***************************************************************************)
(* State.                                                                  *)
(***************************************************************************)
VARIABLES
    \* decoding a buffer
    buffer,       \* the bytes handed to a response class
    klass,        \* the response class
    decoded,      \* None, or how the buffer was decoded and the outcome
    \* NovaPmReader against the emulated device
    emu,          \* the Sds011SerialEmulator
    io,           \* the stream calls of the last operation, in order
    ret,          \* None, or the outcome of the last operation
    readers,      \* the classes of the reader objects made over the stream
    pre,          \* the emulator as it was before the last operation
    hist,         \* None, or the calls before the last, oldest first
    \* OpinionatedReader
    pc,           \* position in read(); "idle" between invocations
    state,        \* self.state: ReaderState(status, last_exception)
    events,       \* what the current invocation did so far, in order
    iterations,   \* self.iterations
    x,            \* the loop variable of read()
    pm25_reads,   \* pm25_reads
    pm10_reads,   \* pm10_reads
    e,            \* the exception caught by read()'s handler
    outcome,      \* None, or how the invocation of read() ended
    previous,     \* how the invocation before this one ended
    \* the database
    read_log,     \* the rows of table read_log, in insertion order
    \* the server's polling task
    epa_aqi_log,  \* the rows of table epa_aqi_log, in insertion order
    now,          \* datetime.now(), in half seconds
    next_schedule,\* ScheduledReader.next_schedule
    pollutant_reading, \* the PollutantReading handed to calculate_epa_aqi_raw
    config        \* the server's Config

codecVars == <<buffer, klass, decoded>>
driverVars == <<emu, io, ret, readers, pre, hist>>
cycleVars == <<pc, state, events, iterations, x, pm25_reads, pm10_reads, e,
               outcome, previous>>
serverVars == <<epa_aqi_log, now, next_schedule, pollutant_reading, config>>
dbVars == <<read_log, serverVars>>
vars == <<codecVars, driverVars, cycleVars, dbVars>>

\* ReaderState(status, last_exception)
ReaderState(status, last_exception) ==
    [status |-> status, last_exception |-> last_exception]

\* The parts of the state a specification does not use.
CodecUnused == buffer = <<>> /\ klass = "None" /\ decoded = None
DriverUnused ==
    /\ emu = EmulatorInit /\ io = <<>> /\ ret = None
    /\ readers = {"NovaPmReader"} /\ pre = EmulatorInit /\ hist = None
ServerUnused ==
    /\ epa_aqi_log = <<>> /\ now = 0 /\ next_schedule = None
    /\ pollutant_reading = None /\ config = None
DbUnused == read_log = <<>> /\ ServerUnused
CycleUnused ==
    /\ pc = "idle" /\ state = ReaderState("IDLE", None) /\ events = <<>>
    /\ iterations = 0 /\ x = 0 /\ pm25_reads = <<>> /\ pm10_reads = <<>>
    /\ e = None /\ outcome = None /\ previous = "none"

(***************************************************************************)
(* Decoding buffers: every response class on every enumerated buffer,      *)
(* either handed to the class directly or read through _read_response.     *)
(***************************************************************************)
FrameOf(head, type, d, chk, tail) == <<head, type>> \o d \o <<chk, tail>>

\* six data bytes: a command code (or 25, the low pm2.5 byte of a data
\* frame), two operand bytes, a zero and the device id 01 01
DataFields ==
    { <<c, a, b, 0, 1, 1>> : c \in Commands \cup {25},
                             a \in 0..MaxOperand, b \in 0..MaxOperand }
    \cup { <<25, 1, 2, 1, 1, 2>>, <<255, 255, 255, 255, 1, 2>> }

\* 10-byte frames, each field right or wrong
FullFrames ==
    { FrameOf(h, t, d, (SumBytes(d) + k) % 256, tl) :
        h \in {HEAD, 0}, t \in {GENERAL_RESPONSE, QUERY_RESPONSE, 0},
        d \in DataFields, k \in {0, 1}, tl \in {TAIL, 0} }

Resize(f, n) == IF n <= 10 THEN SubSeq(f, 1, n) ELSE f \o Zeros(n - 10)

Buffers == { Resize(f, n) : f \in FullFrames, n \in 0..MaxBufLen }

InitCodec ==
    /\ buffer \in Buffers
    /\ klass \in ResponseClasses
    /\ decoded = None
    /\ DriverUnused /\ CycleUnused /\ DbUnused

\* cls(data): the buffer is handed to the response class.
DecodeDirect ==
    /\ klass \in ResponseClasses /\ decoded = None
    /\ decoded' = [via |-> "direct", out |-> Construct(klass, buffer)]
    /\ UNCHANGED <<buffer, klass, driverVars, cycleVars, dbVars>>

\* query_*(): the buffer is what ser.read(10) returned.
DecodeRead ==
    /\ klass \in ResponseClasses /\ decoded = None
    /\ Len(buffer) <= 10
    /\ decoded' = [via |-> "read", out |-> query(klass, buffer)]
    /\ UNCHANGED <<buffer, klass, driverVars, cycleVars, dbVars>>

NextCodec == DecodeDirect \/ DecodeRead

SpecCodec == InitCodec /\ [][NextCodec]_vars

\* The checksum a buffer should carry, and whether it does.
BufferChecksum(b) == SumBytes(SubSeq(b, 3, 8)) % 256
WrapperOk(b) == b[1] = HEAD /\ b[10] = TAIL

\* C2: a response object is constructed only from a 10-byte buffer with the
\* right head and tail, the right checksum, the response type its class
\* expects and, except for the query-data class, the class's command id in
\* the first data byte.
C2_AcceptedOnlyIfValid ==
    (decoded # None /\ decoded.out.ok) =>
        /\ Len(buffer) = 10
        /\ buffer[1] = HEAD
        /\ buffer[10] = TAIL
        /\ buffer[9] = BufferChecksum(buffer)
        /\ buffer[2] = ExpectedResponseType(klass)
        /\ (klass # "QueryReadResponse" => buffer[3] = ExpectedCommandCode(klass))

\* C2 witness: a response object of a non-query class was constructed.
C2_Witness ==
    /\ decoded # None /\ decoded.out.ok
    /\ klass = "SleepWakeReadResponse"
    /\ decoded.out.val.state = SleepState_WORK

\* The error the claimed order of checks gives for a buffer, "none" when
\* every check passes.
FirstFailingCheck(b, cls) ==
    IF Len(b) # 10 THEN "IncompleteReadException"
    ELSE IF ~WrapperOk(b) THEN "IncorrectWrapperException"
    ELSE IF b[9] # BufferChecksum(b) THEN "ChecksumFailedException"
    ELSE IF b[2] # ExpectedResponseType(cls) THEN "IncorrectCommandException"
    ELSE IF cls # "QueryReadResponse" /\ b[3] # ExpectedCommandCode(cls)
        THEN "IncorrectCommandCodeException"
    ELSE "none"

\* How many of the five checks a buffer fails (the later checks read a
\* 10-byte buffer only).
FailedChecks(b, cls) ==
    IF Len(b) # 10 THEN 1
    ELSE (IF WrapperOk(b) THEN 0 ELSE 1)
       + (IF b[9] = BufferChecksum(b) THEN 0 ELSE 1)
       + (IF b[2] = ExpectedResponseType(cls) THEN 0 ELSE 1)
       + (IF cls = "QueryReadResponse" \/ b[3] = ExpectedCommandCode(cls)
            THEN 0 ELSE 1)

\* C3: validation raises the error of the first failing check in the order
\* length, head/tail, checksum, response type, command code (the last for
\* non-query classes only), and no validation error when every check passes.
C3_FirstFailingCheckRaised ==
    decoded # None =>
        LET first == FirstFailingCheck(buffer, klass) IN
        IF first = "none"
        THEN decoded.out.ok \/ decoded.out.exc.type = "ValueError"
        ELSE ~decoded.out.ok /\ decoded.out.exc.type = first

\* C3 witness: a buffer failing the checksum, the response-type and the
\* command-code check at once raised the checksum error.
C3_Witness ==
    /\ decoded # None
    /\ Len(buffer) = 10
    /\ FailedChecks(buffer, klass) = 3
    /\ WrapperOk(buffer)
    /\ ~decoded.out.ok
    /\ decoded.out.exc.type = "ChecksumFailedException"

\* C4 as claimed: every 10-byte buffer with a wrong checksum byte fails
\* with ChecksumFailedException.
C4_Original ==
    (decoded # None /\ Len(buffer) = 10 /\ buffer[9] # BufferChecksum(buffer)) =>
        ~decoded.out.ok /\ decoded.out.exc.type = "ChecksumFailedException"

\* C4 amended: a 10-byte buffer with a wrong checksum byte never yields a
\* response object; it fails with ChecksumFailedException when its head and
\* tail are right, and with IncorrectWrapperException when they are not.
C4_BadChecksumRejected ==
    (decoded # None /\ Len(buffer) = 10 /\ buffer[9] # BufferChecksum(buffer)) =>
        /\ ~decoded.out.ok
        /\ decoded.out.exc.type =
              IF WrapperOk(buffer) THEN "ChecksumFailedException"
              ELSE "IncorrectWrapperException"

\* C4 witness: a frame right in everything but its checksum was refused
\* with ChecksumFailedException.
C4_Witness ==
    /\ decoded # None
    /\ Len(buffer) = 10
    /\ FailedChecks(buffer, klass) = 1
    /\ buffer[9] # BufferChecksum(buffer)
    /\ ~decoded.out.ok
    /\ decoded.out.exc.type = "ChecksumFailedException"

\* C5 as claimed: fewer than 10 bytes always fail with an
\* IncompleteReadException carrying the number of bytes received, read
\* from the stream or handed to a response class directly.
C5_ShortCarriesLength ==
    (decoded # None /\ Len(buffer) < 10) =>
        /\ ~decoded.out.ok
        /\ decoded.out.exc.type = "IncompleteReadException"
        /\ decoded.out.exc.args = <<Len(buffer)>>

(***************************************************************************)
(* NovaPmReader against the emulated device: one action per method, with   *)
(* the stream calls it makes.                                              *)
(***************************************************************************)
\* arguments tried for set_working_period and set_device_id
WorkingPeriodInputs == {-1, 0, 1, 29, 30, 256}
DeviceIdInputs == { <<18, 35>>, <<187, 170>>, <<1>>, <<1, 2, 3>> }
TargetIdInputs == { ALL_SENSOR_ID, <<1>> }

WriteCall(data) == [call |-> "write", data |-> data]
ReadCall(data) == [call |-> "read", data |-> data]
CloseCall == [call |-> "close"]
OpenCall == [call |-> "open"]

Returned(op, args, out) == [op |-> op, args |-> args, out |-> out]

\* the outcome of a method that has not ended yet, and whether one is
\* executing: no two operations are in flight on one stream
Executing == [executing |-> TRUE]
Busy == ret # None /\ ret.out = Executing

\* NovaPmReader(ser_dev) over a new emulator
InitDriver ==
    /\ emu = EmulatorInit
    /\ io = <<>>
    /\ ret = None
    /\ readers = {"NovaPmReader"}
    /\ pre = EmulatorInit
    /\ hist = None
    /\ CodecUnused /\ CycleUnused /\ DbUnused

\* What a method did: the emulator it leaves, its stream calls, its outcome.
Did(em, calls, out) == [emu |-> em, io |-> calls, out |-> out]

\* Two calls in a row: the second is not made when the first raises.
AndThen(first, second) ==
    IF ~first.out.ok THEN first
    ELSE Did(second.emu, first.io \o second.io, second.out)

\* A method that builds a command and sends it: nothing touches the stream
\* when building raises; otherwise the frame goes to ser.write.
Sent(em, built) ==
    IF ~built.ok THEN Did(em, <<>>, built)
    ELSE LET w == EmulatorWrite(em, built.val) IN
         Did(w.emu, <<WriteCall(built.val)>>,
             IF w.exc = None THEN Ok(None) ELSE [ok |-> FALSE, exc |-> w.exc])

\* A query_* method: ser.read(10), then the response class.
Queried(em, cls) ==
    LET result == EmulatorRead(em) IN
    Did(em, <<ReadCall(result)>>, query(cls, result))

\* self.ser_dev.read(10) with the bytes dropped
Dropped(em) == Did(em, <<ReadCall(EmulatorRead(em))>>, Ok(None))

\* the stream closed and left closed
ClosedOnly(em) == Did(em, <<CloseCall>>, Ok(None))

\* self.ser.close(); self.ser.open()
Reopened(em) == Did(em, <<CloseCall, OpenCall>>, Ok(None))

\* set_active_mode / set_query_mode: _set_reporting_mode (write, close,
\* open), then query_reporting_mode with the listed exceptions passed over.
ReportingModeSet(em, reporting_mode, passed) ==
    LET set == AndThen(Sent(em, _set_reporting_mode(reporting_mode)),
                       Reopened(Sent(em, _set_reporting_mode(reporting_mode)).emu))
        confirm == Queried(set.emu, "ReportingModeReadResponse") IN
    IF ~set.out.ok THEN set
    ELSE Did(confirm.emu, set.io \o confirm.io,
             IF confirm.out.ok \/ confirm.out.exc.type \in passed
             THEN Ok(None) ELSE confirm.out)

\* safe_wake: wake(), then one read whose bytes are dropped
SafeWoken(em) == AndThen(Sent(em, wake), Dropped(Sent(em, wake).emu))

\* The operation before the last joins the history, which keeps
\* HistoryKept calls; no history is kept where hist is None.
Earlier ==
    IF hist = None THEN None
    ELSE IF ret = None THEN hist
    ELSE LET h == Append(hist.calls, [op |-> ret.op, ok |-> ret.out.ok]) IN
         [calls |-> IF Len(h) > HistoryKept THEN Tail(h) ELSE h]

\* One method call on a reader of class cls, as a step of the system.
Apply(cls, op, args, did) ==
    /\ ~Busy
    /\ cls \in readers
    /\ emu' = did.emu
    /\ io' = did.io
    /\ ret' = Returned(op, args, did.out)
    /\ pre' = emu
    /\ hist' = Earlier
    /\ UNCHANGED <<readers, codecVars, dbVars, cycleVars>>

Send(op, args, built) == Apply("NovaPmReader", op, args, Sent(emu, built))

Query(op, cls) == Apply("NovaPmReader", op, <<>>, Queried(emu, cls))

SetReportingMode(op, reporting_mode, passed) ==
    Apply("NovaPmReader", op, <<>>,
          ReportingModeSet(emu, reporting_mode, passed))

RequestData == Send("request_data", <<>>, request_data)
QueryData == Query("query_data", "QueryReadResponse")
RequestReportingMode == Send("request_reporting_mode", <<>>, request_reporting_mode)
QueryReportingMode == Query("query_reporting_mode", "ReportingModeReadResponse")
SetActiveMode ==
    SetReportingMode("set_active_mode", ReportingMode_ACTIVE,
                     {"IncorrectCommandException", "IncompleteReadException"})
SetQueryMode ==
    SetReportingMode("set_query_mode", ReportingMode_QUERYING,
                     {"IncorrectCommandException", "IncompleteReadException",
                      "IncorrectCommandCodeException"})
RequestSleepState == Send("request_sleep_state", <<>>, request_sleep_state)
QuerySleepState == Query("query_sleep_state", "SleepWakeReadResponse")
Sleep == Send("sleep", <<>>, sleep)
Wake == Send("wake", <<>>, wake)

SafeWake == Apply("NovaPmReader", "safe_wake", <<>>, SafeWoken(emu))

SetDeviceId ==
    \E device_id \in DeviceIdInputs, target_device_id \in TargetIdInputs :
        Send("set_device_id", <<device_id, target_device_id>>,
             set_device_id(device_id, target_device_id))
QueryDeviceId == Query("query_device_id", "DeviceIdResponse")
RequestWorkingPeriod == Send("request_working_period", <<>>, request_working_period)
QueryWorkingPeriod == Query("query_working_period", "WorkingPeriodReadResponse")
SetWorkingPeriod ==
    \E working_period \in WorkingPeriodInputs :
        Send("set_working_period", <<working_period>>,
             set_working_period(working_period))
RequestFirmwareVersion ==
    Send("request_firmware_version", <<>>, request_firmware_version)
QueryFirmwareVersion == Query("query_firmware_version", "CheckFirmwareReadResponse")

\* a QueryModeReader method that sends its request and does not read
RequestOnly(em, built, cls) == Sent(em, built)

\* request, then read: the two calls of a QueryModeReader method
RequestThenRead(em, built, cls) ==
    AndThen(Sent(em, built), Queried(Sent(em, built).emu, cls))

\* command, then self.ser_dev.read(10): an ActiveModeReader method
CommandThenDrop(em, built) ==
    AndThen(Sent(em, built), Dropped(Sent(em, built).emu))

\* A facade's constructor, which makes its base_reader first: there is an
\* object of the class when __init__ returns.
New(cls, did) ==
    /\ ~Busy
    /\ emu' = did.emu
    /\ io' = did.io
    /\ ret' = Returned(cls, <<>>, did.out)
    /\ readers' = readers \cup {"NovaPmReader"}
                        \cup (IF did.out.ok THEN {cls} ELSE {})
    /\ pre' = emu
    /\ hist' = Earlier
    /\ UNCHANGED <<codecVars, dbVars, cycleVars>>

\* QueryModeReader.__init__ without its safe_wake()
QueryModeReaderInitNoWake ==
    New("QueryModeReader",
        ReportingModeSet(emu, ReportingMode_QUERYING,
                         {"IncorrectCommandException",
                          "IncompleteReadException",
                          "IncorrectCommandCodeException"}))

\* QueryModeReader.__init__: safe_wake(), set_query_mode()
QueryModeReaderInit ==
    New("QueryModeReader",
        AndThen(SafeWoken(emu),
                ReportingModeSet(SafeWoken(emu).emu, ReportingMode_QUERYING,
                                 {"IncorrectCommandException",
                                  "IncompleteReadException",
                                  "IncorrectCommandCodeException"})))

\* ActiveModeReader.__init__: safe_wake(), set_active_mode()
ActiveModeReaderInit ==
    New("ActiveModeReader",
        AndThen(SafeWoken(emu),
                ReportingModeSet(SafeWoken(emu).emu, ReportingMode_ACTIVE,
                                 {"IncorrectCommandException",
                                  "IncompleteReadException"})))

\* QueryModeReader's methods
QueryModeReader_query ==
    Apply("QueryModeReader", "QueryModeReader.query", <<>>,
          RequestThenRead(emu, request_data, "QueryReadResponse"))
QueryModeReader_get_reporting_mode ==
    Apply("QueryModeReader", "QueryModeReader.get_reporting_mode", <<>>,
          RequestThenRead(emu, request_reporting_mode, "ReportingModeReadResponse"))
QueryModeReader_get_sleep_state ==
    Apply("QueryModeReader", "QueryModeReader.get_sleep_state", <<>>,
          RequestThenRead(emu, request_sleep_state, "SleepWakeReadResponse"))
QueryModeReader_sleep ==
    Apply("QueryModeReader", "QueryModeReader.sleep", <<>>,
          RequestThenRead(emu, sleep, "SleepWakeReadResponse"))
QueryModeReader_wake ==
    Apply("QueryModeReader", "QueryModeReader.wake", <<>>,
          RequestThenRead(emu, wake, "SleepWakeReadResponse"))
QueryModeReader_set_device_id ==
    \E device_id \in DeviceIdInputs, target_device_id \in TargetIdInputs :
        Apply("QueryModeReader", "QueryModeReader.set_device_id",
              <<device_id, target_device_id>>,
              RequestThenRead(emu, set_device_id(device_id, target_device_id),
                              "DeviceIdResponse"))
QueryModeReader_get_working_period ==
    Apply("QueryModeReader", "QueryModeReader.get_working_period", <<>>,
          RequestThenRead(emu, request_working_period, "WorkingPeriodReadResponse"))
QueryModeReader_set_working_period ==
    \E working_period \in WorkingPeriodInputs :
        Apply("QueryModeReader", "QueryModeReader.set_working_period",
              <<working_period>>,
              RequestThenRead(emu, set_working_period(working_period),
                              "WorkingPeriodReadResponse"))
QueryModeReader_get_firmware_version ==
    Apply("QueryModeReader", "QueryModeReader.get_firmware_version", <<>>,
          RequestThenRead(emu, request_firmware_version, "CheckFirmwareReadResponse"))

\* ActiveModeReader's methods that make one call and at most one read
ActiveModeReader_query ==
    Apply("ActiveModeReader", "ActiveModeReader.query", <<>>,
          Queried(emu, "QueryReadResponse"))
ActiveModeReader_wake ==
    Apply("ActiveModeReader", "ActiveModeReader.wake", <<>>,
          CommandThenDrop(emu, wake))
ActiveModeReader_set_device_id ==
    \E device_id \in DeviceIdInputs, target_device_id \in TargetIdInputs :
        Apply("ActiveModeReader", "ActiveModeReader.set_device_id",
              <<device_id, target_device_id>>,
              CommandThenDrop(emu, set_device_id(device_id, target_device_id)))
ActiveModeReader_set_working_period ==
    \E working_period \in WorkingPeriodInputs :
        Apply("ActiveModeReader", "ActiveModeReader.set_working_period",
              <<working_period>>,
              CommandThenDrop(emu, set_working_period(working_period)))

\* ActiveModeReader.sleep up to its loop: base_reader.sleep()
Began(did) == IF did.out.ok THEN Did(did.emu, did.io, Executing) ELSE did

ActiveModeReader_sleep ==
    Apply("ActiveModeReader", "ActiveModeReader.sleep", <<>>,
          Began(Sent(emu, sleep)))

\* a sleep() that returns after its first read, whatever it yields
DrainedOnce(r) ==
    /\ Busy /\ ret.op = "ActiveModeReader.sleep"
    /\ io' = Append(io, ReadCall(r.data))
    /\ ret' = [ret EXCEPT !.out = Ok(None)]
    /\ UNCHANGED <<emu, readers, pre, hist, codecVars, dbVars, cycleVars>>

\* One turn of `while len(self.ser_dev.read(10)) == 10: pass` on the read
\* outcome r: the loop goes on after a full frame and ends after a shorter
\* one; io keeps the first MaxDrained full frames read.
Drained(r) ==
    /\ Busy /\ ret.op = "ActiveModeReader.sleep"
    /\ LET full == ~r.raised /\ Len(r.data) = 10 IN
       /\ io' = IF full /\ Len(io) > MaxDrained THEN io
                ELSE Append(io, ReadCall(r.data))
       /\ ret' = [ret EXCEPT !.out =
                    IF r.raised
                    THEN Raise("SerialException", <<>>)
                    ELSE IF full THEN Executing ELSE Ok(None)]
    /\ UNCHANGED <<emu, readers, pre, hist, codecVars, dbVars, cycleVars>>

\* the loop of ActiveModeReader.sleep reading the emulated device
ActiveModeReader_sleep_drain ==
    Drained([raised |-> FALSE, data |-> EmulatorRead(emu)])

NextDriver ==
    \/ RequestData \/ QueryData
    \/ RequestReportingMode \/ QueryReportingMode
    \/ SetActiveMode \/ SetQueryMode
    \/ RequestSleepState \/ QuerySleepState
    \/ Sleep \/ Wake \/ SafeWake
    \/ SetDeviceId \/ QueryDeviceId
    \/ RequestWorkingPeriod \/ QueryWorkingPeriod \/ SetWorkingPeriod
    \/ RequestFirmwareVersion \/ QueryFirmwareVersion

SpecDriver == InitDriver /\ [][NextDriver]_vars

(***************************************************************************)
(* The mode facades over a new emulator: their constructors and methods,   *)
(* and sleep() of their base_reader.                                       *)
(***************************************************************************)
InitFacade ==
    /\ emu = EmulatorInit
    /\ io = <<>>
    /\ ret = None
    /\ readers = {}
    /\ pre = EmulatorInit
    /\ hist = None
    /\ CodecUnused /\ CycleUnused /\ DbUnused

NextFacade ==
    \/ QueryModeReaderInit \/ ActiveModeReaderInit
    \/ Sleep
    \/ QueryModeReader_query \/ QueryModeReader_get_reporting_mode
    \/ QueryModeReader_get_sleep_state
    \/ QueryModeReader_sleep \/ QueryModeReader_wake
    \/ QueryModeReader_set_device_id
    \/ QueryModeReader_get_working_period \/ QueryModeReader_set_working_period
    \/ QueryModeReader_get_firmware_version
    \/ ActiveModeReader_query \/ ActiveModeReader_wake
    \/ ActiveModeReader_set_device_id \/ ActiveModeReader_set_working_period
    \/ ActiveModeReader_sleep \/ ActiveModeReader_sleep_drain

SpecFacade == InitFacade /\ [][NextFacade]_vars

\* The loop of sleep() is straight-line code: it takes its next turn.
SpecFacadeFair == SpecFacade /\ WF_vars(ActiveModeReader_sleep_drain)

(***************************************************************************)
(* The calls of the reporting-mode tests on a NovaPmReader over a new      *)
(* emulator, with the history of calls kept.                               *)
(***************************************************************************)
InitModes ==
    /\ emu = EmulatorInit
    /\ io = <<>>
    /\ ret = None
    /\ readers = {"NovaPmReader"}
    /\ pre = EmulatorInit
    /\ hist = [calls |-> <<>>]
    /\ CodecUnused /\ CycleUnused /\ DbUnused

NextModes ==
    \/ SetActiveMode \/ SetQueryMode
    \/ RequestReportingMode \/ QueryReportingMode
    \/ RequestSleepState \/ QuerySleepState
    \/ RequestWorkingPeriod \/ QueryWorkingPeriod
    \/ RequestFirmwareVersion \/ QueryFirmwareVersion
    \/ RequestData \/ QueryData

SpecModes == InitModes /\ [][NextModes]_vars

\* The layout of a command: 19 bytes, head AA, type B4, 15 command bytes
\* starting with a command id, their sum mod 256, tail AB.
WellFormedCommand(f) ==
    /\ Len(f) = 19
    /\ \A i \in 1..19 : f[i] \in 0..255
    /\ f[1] = HEAD
    /\ f[2] = SUBMIT_TYPE
    /\ f[3] \in Commands
    /\ f[18] = SumBytes(SubSeq(f, 3, 17)) % 256
    /\ f[19] = TAIL

\* C1: every command NovaPmReader hands to the byte stream is a well-formed
\* 19-byte command whose checksum byte is the sum of its 15 command bytes
\* mod 256.
C1_CommandsWellFormed ==
    \A i \in DOMAIN io : io[i].call = "write" => WellFormedCommand(io[i].data)

\* C1 witness: set_device_id wrote a command whose 15 command bytes sum to
\* more than 255.
C1_Witness ==
    /\ ret # None
    /\ ret.op = "set_device_id"
    /\ ret.out.ok
    /\ Len(io) = 1 /\ io[1].call = "write"
    /\ SumBytes(SubSeq(io[1].data, 3, 17)) > 255

(***************************************************************************)
(* read/novapm.py: OpinionatedReader.read() over a byte stream whose       *)
(* device may answer anything and whose calls may raise.                   *)
(***************************************************************************)
\* A response frame as the device builds it: head, type, four bytes and the
\* device id 01 01, checksum, tail.
ResponseFrame(response_type, cmd) ==
    LET cmd_and_id == cmd \o <<1, 1>> IN
    FrameOf(HEAD, response_type, cmd_and_id, SumBytes(cmd_and_id) % 256, TAIL)

\* the answer to a sleep-state command
SleepFrame(sleep_state) ==
    ResponseFrame(GENERAL_RESPONSE,
                  <<Command_SET_SLEEP, OperationType_SET_MODE, sleep_state, 0>>)

\* a data frame: pm2.5 and pm10 as 16-bit little-endian raw values
DataFrame(pm25, pm10) ==
    ResponseFrame(QUERY_RESPONSE,
                  <<pm25 % 256, pm25 \div 256, pm10 % 256, pm10 \div 256>>)

\* raw (pm2.5, pm10) pairs the device may report: 2.5, 3.0 and 3.5
Samples == { <<25, 100>>, <<30, 100>>, <<35, 120>> }

\* What ser.read(10) may return: right answers, an answer to another
\* command, an unknown operation type, a bad checksum, a bad head, short
\* and empty reads.
DeviceFrames ==
    { SleepFrame(st) : st \in SleepStates }
    \cup { DataFrame(p[1], p[2]) : p \in Samples }
    \cup { ResponseFrame(GENERAL_RESPONSE,
                         <<Command_SET_WORKING_PERIOD, OperationType_SET_MODE, 0, 0>>),
           ResponseFrame(GENERAL_RESPONSE, <<Command_SET_SLEEP, 2, 1, 0>>),
           [DataFrame(25, 100) EXCEPT ![9] = (@ + 1) % 256],
           [DataFrame(25, 100) EXCEPT ![1] = 0],
           SubSeq(DataFrame(25, 100), 1, 5),
           <<>> }

\* ser.read(10): bytes, or the stream raises
ReadOutcomes ==
    { [raised |-> FALSE, data |-> f] : f \in DeviceFrames }
    \cup { [raised |-> TRUE, data |-> <<>>] }

\* ser.write(full_command): returns, or the stream raises
WriteOutcomes == { FALSE, TRUE }

\* An exception with the place of read() that raised it (its identity).
At(exc, site) == [type |-> exc.type, args |-> exc.args, site |-> site]
SerialException == [type |-> "SerialException", args |-> <<>>]

\* query_*() on one outcome of ser.read(10)
ReadAs(cls, r) ==
    IF r.raised THEN [ok |-> FALSE, exc |-> SerialException]
    ELSE query(cls, r.data)

WriteEvent(data, raised) == [ev |-> "write", data |-> data, raised |-> raised]
ReadEvent(what, r) ==
    [ev |-> "read", what |-> what, data |-> r.data, raised |-> r.raised]
StatusEvent(st) == [ev |-> "status", state |-> st]

\* statistics.mean of raw values, as the exact fraction sum / n
mean(reads) == [sum |-> SumBytes(reads), n |-> Len(reads)]

\* AqiRead(pmtwofive, pmten)
AqiRead(pmtwofive, pmten) == [pmtwofive |-> pmtwofive, pmten |-> pmten]

InitCycle ==
    /\ pc = "idle"
    /\ state = ReaderState("IDLE", None)
    /\ events = <<>>
    /\ iterations \in 0..MaxIterations
    /\ x = 0 /\ pm25_reads = <<>> /\ pm10_reads = <<>>
    /\ e = None /\ outcome = None /\ previous = "none"
    /\ CodecUnused /\ DriverUnused /\ DbUnused

\* read() is invoked; self.state is whatever the last invocation left.
Invoke ==
    /\ pc = "idle"
    /\ pc' = "wake"
    /\ previous' = IF outcome = None THEN "none" ELSE outcome.kind
    /\ outcome' = None
    /\ events' = <<>>
    /\ e' = None /\ x' = 0 /\ pm25_reads' = <<>> /\ pm10_reads' = <<>>
    /\ UNCHANGED <<state, iterations, codecVars, dbVars, driverVars>>

\* the handler keeping the status it found and replacing the error alone
CaughtKeepsStatus(evs, exc) ==
    /\ e' = exc
    /\ state' = ReaderState(state.status, exc)
    /\ events' = Append(evs, StatusEvent(ReaderState(state.status, exc)))
    /\ pc' = "except_sleep"

\* except Exception as e: self.state = ReaderState(ERRORING, e)
Caught(evs, exc) ==
    /\ e' = exc
    /\ state' = ReaderState("ERRORING", exc)
    /\ events' = Append(evs, StatusEvent(ReaderState("ERRORING", exc)))
    /\ pc' = "except_sleep"

\* self.reader.wake()
WakeDevice ==
    /\ pc = "wake"
    /\ \E raised \in WriteOutcomes :
        LET evs == Append(events, WriteEvent(wake.val, raised)) IN
        IF raised THEN Caught(evs, At(SerialException, <<"wake", 0>>))
        ELSE pc' = "wake_confirm" /\ events' = evs /\ UNCHANGED <<e, state>>
    /\ UNCHANGED <<iterations, x, pm25_reads, pm10_reads, outcome, previous,
                   codecVars, dbVars, driverVars>>

\* the wake confirmed with the retained error carried into WARM_UP
WakeConfirmKeepsError ==
    /\ pc = "wake_confirm"
    /\ \E r \in ReadOutcomes :
        LET out == ReadAs("SleepWakeReadResponse", r)
            evs == Append(events, ReadEvent("sleep_state", r)) IN
        IF ~out.ok THEN Caught(evs, At(out.exc, <<"wake_confirm", 0>>))
        ELSE /\ state' = ReaderState("WARM_UP", state.last_exception)
             /\ events' = Append(evs, StatusEvent(ReaderState("WARM_UP", None)))
             /\ pc' = "warm_up"
             /\ UNCHANGED e
    /\ UNCHANGED <<iterations, x, pm25_reads, pm10_reads, outcome, previous,
                   codecVars, dbVars, driverVars>>

\* self.reader.query_sleep_state(); self.state = WARM_UP; await sleep
WakeConfirm ==
    /\ pc = "wake_confirm"
    /\ \E r \in ReadOutcomes :
        LET out == ReadAs("SleepWakeReadResponse", r)
            evs == Append(events, ReadEvent("sleep_state", r)) IN
        IF ~out.ok THEN Caught(evs, At(out.exc, <<"wake_confirm", 0>>))
        ELSE /\ state' = ReaderState("WARM_UP", None)
             /\ events' = Append(evs, StatusEvent(ReaderState("WARM_UP", None)))
             /\ pc' = "warm_up"
             /\ UNCHANGED e
    /\ UNCHANGED <<iterations, x, pm25_reads, pm10_reads, outcome, previous,
                   codecVars, dbVars, driverVars>>

\* the warm-up wait is over without the READING status being set
WarmUpDoneNoStatus ==
    /\ pc = "warm_up"
    /\ pm25_reads' = <<>> /\ pm10_reads' = <<>> /\ x' = 0
    /\ pc' = IF iterations > 0 THEN "sample_wait" ELSE "sleep"
    /\ UNCHANGED <<state, events, iterations, e, outcome, previous, codecVars, dbVars,
                   driverVars>>

\* the warm-up wait is over: self.state = READING, the lists, the loop
WarmUpDone ==
    /\ pc = "warm_up"
    /\ state' = ReaderState("READING", None)
    /\ events' = Append(events, StatusEvent(ReaderState("READING", None)))
    /\ pm25_reads' = <<>> /\ pm10_reads' = <<>> /\ x' = 0
    /\ pc' = IF iterations > 0 THEN "sample_wait" ELSE "sleep"
    /\ UNCHANGED <<iterations, e, outcome, previous, codecVars, dbVars, driverVars>>

\* the inter-sample wait is over: self.reader.request_data()
RequestSample ==
    /\ pc = "sample_wait"
    /\ \E raised \in WriteOutcomes :
        LET evs == Append(events, WriteEvent(request_data.val, raised)) IN
        IF raised THEN Caught(evs, At(SerialException, <<"request_data", x>>))
        ELSE pc' = "sample_read" /\ events' = evs /\ UNCHANGED <<e, state>>
    /\ UNCHANGED <<iterations, x, pm25_reads, pm10_reads, outcome, previous,
                   codecVars, dbVars, driverVars>>

\* query_data() with a failed sample taken again instead of raised
ReadSampleRetry ==
    /\ pc = "sample_read"
    /\ \E r \in ReadOutcomes :
        LET out == ReadAs("QueryReadResponse", r)
            evs == Append(events, ReadEvent("data", r)) IN
        IF ~out.ok
        THEN /\ pc' = "sample_wait" /\ events' = evs
             /\ Len(evs) < 4 * MaxIterations + 8
             /\ UNCHANGED <<e, state, x, pm25_reads, pm10_reads>>
        ELSE /\ pm25_reads' = Append(pm25_reads, out.val.pm25)
             /\ pm10_reads' = Append(pm10_reads, out.val.pm10)
             /\ events' = evs
             /\ IF x + 1 < iterations
                THEN x' = x + 1 /\ pc' = "sample_wait"
                ELSE x' = x /\ pc' = "sleep"
             /\ UNCHANGED <<e, state>>
    /\ UNCHANGED <<iterations, outcome, previous, codecVars, dbVars, driverVars>>

\* result = self.reader.query_data(); the two appends; the next round
ReadSample ==
    /\ pc = "sample_read"
    /\ \E r \in ReadOutcomes :
        LET out == ReadAs("QueryReadResponse", r)
            evs == Append(events, ReadEvent("data", r)) IN
        IF ~out.ok
        THEN /\ Caught(evs, At(out.exc, <<"query_data", x>>))
             /\ UNCHANGED <<x, pm25_reads, pm10_reads>>
        ELSE /\ pm25_reads' = Append(pm25_reads, out.val.pm25)
             /\ pm10_reads' = Append(pm10_reads, out.val.pm10)
             /\ events' = evs
             /\ IF x + 1 < iterations
                THEN x' = x + 1 /\ pc' = "sample_wait"
                ELSE x' = x /\ pc' = "sleep"
             /\ UNCHANGED <<e, state>>
    /\ UNCHANGED <<iterations, outcome, previous, codecVars, dbVars, driverVars>>

\* the cycle without its self.reader.sleep() after the loop
SleepDeviceSkipped ==
    /\ pc = "sleep"
    /\ pc' = "sleep_confirm"
    /\ UNCHANGED <<events, e, state, iterations, x, pm25_reads, pm10_reads,
                   outcome, previous, codecVars, dbVars, driverVars>>

\* self.reader.sleep() after the loop
SleepDevice ==
    /\ pc = "sleep"
    /\ \E raised \in WriteOutcomes :
        LET evs == Append(events, WriteEvent(sleep.val, raised)) IN
        IF raised THEN Caught(evs, At(SerialException, <<"sleep", 0>>))
        ELSE pc' = "sleep_confirm" /\ events' = evs /\ UNCHANGED <<e, state>>
    /\ UNCHANGED <<iterations, x, pm25_reads, pm10_reads, outcome, previous,
                   codecVars, dbVars, driverVars>>

\* self.reader.query_sleep_state(); self.state = IDLE
SleepConfirm ==
    /\ pc = "sleep_confirm"
    /\ \E r \in ReadOutcomes :
        LET out == ReadAs("SleepWakeReadResponse", r)
            evs == Append(events, ReadEvent("sleep_state", r)) IN
        IF ~out.ok THEN Caught(evs, At(out.exc, <<"sleep_confirm", 0>>))
        ELSE /\ state' = ReaderState("IDLE", None)
             /\ events' = Append(evs, StatusEvent(ReaderState("IDLE", None)))
             /\ pc' = "return"
             /\ UNCHANGED e
    /\ UNCHANGED <<iterations, x, pm25_reads, pm10_reads, outcome, previous,
                   codecVars, dbVars, driverVars>>

\* return AqiRead(mean(pm25_reads), mean(pm10_reads)); mean raises
\* StatisticsError on an empty list, inside the try block.
Return ==
    /\ pc = "return"
    /\ IF pm25_reads = <<>>
       THEN /\ Caught(events, At([type |-> "StatisticsError", args |-> <<>>],
                                 <<"mean", 0>>))
            /\ UNCHANGED outcome
       ELSE /\ outcome' = [kind |-> "returned",
                           value |-> AqiRead(mean(pm25_reads), mean(pm10_reads))]
            /\ pc' = "idle"
            /\ UNCHANGED <<e, state, events>>
    /\ UNCHANGED <<iterations, x, pm25_reads, pm10_reads, previous, codecVars, dbVars,
                   driverVars>>

\* the handler without its self.reader.sleep()
CleanupSleepSkipped ==
    /\ pc = "except_sleep"
    /\ pc' = "except_confirm"
    /\ UNCHANGED <<events, outcome, state, iterations, x, pm25_reads,
                   pm10_reads, e, previous, codecVars, dbVars, driverVars>>

\* the handler's self.reader.sleep(); what it raises leaves read()
CleanupSleep ==
    /\ pc = "except_sleep"
    /\ \E raised \in WriteOutcomes :
        /\ events' = Append(events, WriteEvent(sleep.val, raised))
        /\ IF raised
           THEN /\ outcome' = [kind |-> "raised",
                               exc |-> At(SerialException, <<"except_sleep", 0>>)]
                /\ pc' = "idle"
           ELSE pc' = "except_confirm" /\ UNCHANGED outcome
    /\ UNCHANGED <<state, iterations, x, pm25_reads, pm10_reads, e, previous,
                   codecVars, dbVars, driverVars>>

\* the handler's self.reader.query_sleep_state(), then raise e
CleanupConfirm ==
    /\ pc = "except_confirm"
    /\ \E r \in ReadOutcomes :
        LET out == ReadAs("SleepWakeReadResponse", r) IN
        /\ events' = Append(events, ReadEvent("sleep_state", r))
        /\ outcome' = [kind |-> "raised",
                       exc |-> IF out.ok THEN e
                               ELSE At(out.exc, <<"except_confirm", 0>>)]
        /\ pc' = "idle"
    /\ UNCHANGED <<state, iterations, x, pm25_reads, pm10_reads, e, previous,
                   codecVars, dbVars, driverVars>>

\* The task running read() is cancelled while it is suspended in
\* asyncio.sleep (the warm-up wait or an inter-sample wait): CancelledError
\* is raised there and, being no Exception, passes the handler.
Cancel ==
    /\ pc \in {"warm_up", "sample_wait"}
    /\ outcome' = [kind |-> "cancelled",
                   exc |-> At([type |-> "CancelledError", args |-> <<>>],
                              <<pc, x>>)]
    /\ pc' = "idle"
    /\ UNCHANGED <<state, events, iterations, x, pm25_reads, pm10_reads, e,
                   previous, codecVars, dbVars, driverVars>>

NextCycle ==
    \/ Invoke
    \/ Cancel
    \/ WakeDevice \/ WakeConfirm \/ WarmUpDone
    \/ RequestSample \/ ReadSample
    \/ SleepDevice \/ SleepConfirm \/ Return
    \/ CleanupSleep \/ CleanupConfirm

SpecCycle == InitCycle /\ [][NextCycle]_vars

(***************************************************************************)
(* read/mock.py: MockReader, the other reader build_reader may construct,  *)
(* on the variables of the read cycle.                                     *)
(***************************************************************************)
\* round(random.uniform(..), 2) for pm25 and pm10, in hundredths
MockValues == { <<0, 0>>, <<1234, 30000>>, <<50040, 150>> }

\* MockReader.__init__
InitMock ==
    /\ pc = "mock_idle"
    /\ state = ReaderState("IDLE", None)
    /\ events = <<>>
    /\ iterations = 0 /\ x = 0 /\ pm25_reads = <<>> /\ pm10_reads = <<>>
    /\ e = None /\ outcome = None /\ previous = "none"
    /\ CodecUnused /\ DriverUnused /\ DbUnused

\* MockReader.read() up to its wait: READING, the roll, then either the
\* fake error (ERRORING with it, raised) or the result and the suspension
MockRead ==
    /\ pc = "mock_idle"
    /\ previous' = IF outcome = None THEN "none" ELSE outcome.kind
    /\ \E raise_error \in BOOLEAN, value \in MockValues :
        LET reading == ReaderState("READING", None)
            exc == At([type |-> "Exception",
                       args |-> <<"Fake error from the reader.">>],
                      <<"roll", 0>>) IN
        IF raise_error
        THEN /\ state' = ReaderState("ERRORING", exc)
             /\ events' = <<StatusEvent(reading),
                            StatusEvent(ReaderState("ERRORING", exc))>>
             /\ e' = exc
             /\ outcome' = [kind |-> "raised", exc |-> exc]
             /\ pc' = "mock_idle"
             /\ UNCHANGED <<pm25_reads, pm10_reads>>
        ELSE /\ state' = reading
             /\ events' = <<StatusEvent(reading)>>
             /\ e' = None
             /\ outcome' = None
             /\ pm25_reads' = <<value[1]>> /\ pm10_reads' = <<value[2]>>
             /\ pc' = "mock_wait"
    /\ UNCHANGED <<iterations, x, codecVars, dbVars, driverVars>>

\* the wait of MockReader.read() is over: IDLE, return result
MockReturn ==
    /\ pc = "mock_wait"
    /\ state' = ReaderState("IDLE", None)
    /\ events' = Append(events, StatusEvent(ReaderState("IDLE", None)))
    /\ outcome' = [kind |-> "returned",
                   value |-> AqiRead(pm25_reads[1], pm10_reads[1])]
    /\ pc' = "mock_idle"
    /\ UNCHANGED <<iterations, x, pm25_reads, pm10_reads, e, previous,
                   codecVars, dbVars, driverVars>>

\* the task is cancelled in the wait of MockReader.read(): CancelledError
\* passes `except Exception`
MockCancel ==
    /\ pc = "mock_wait"
    /\ outcome' = [kind |-> "cancelled",
                   exc |-> At([type |-> "CancelledError", args |-> <<>>],
                              <<pc, 0>>)]
    /\ pc' = "mock_idle"
    /\ UNCHANGED <<state, events, iterations, x, pm25_reads, pm10_reads, e,
                   previous, codecVars, dbVars, driverVars>>

NextMock == MockRead \/ MockReturn \/ MockCancel

\* build_reader: a MockReader or an OpinionatedReader
InitReaders == InitCycle \/ InitMock

NextReaders == NextCycle \/ NextMock

SpecReaders == InitReaders /\ [][NextReaders]_vars

(***************************************************************************)
(* sds011/__init__.py over a byte stream whose device may answer anything  *)
(* and whose calls may raise: the reporting-mode changes of NovaPmReader   *)
(* and the methods of ActiveModeReader.                                    *)
(***************************************************************************)
\* the answer to a reporting-mode command
ReportingModeFrame(operation_type, reporting_mode) ==
    ResponseFrame(GENERAL_RESPONSE,
                  <<Command_SET_REPORTING_MODE, operation_type, reporting_mode, 0>>)

\* What ser.read(10) may return here: the frames of the read cycle, the
\* answers to a reporting-mode command and one with an unknown operation
\* type.
StreamFrames ==
    DeviceFrames
    \cup { ReportingModeFrame(OperationType_SET_MODE, mode) : mode \in ReportingModes }
    \cup { ReportingModeFrame(2, ReportingMode_ACTIVE) }

StreamReads ==
    { [raised |-> FALSE, data |-> f] : f \in StreamFrames }
    \cup { [raised |-> TRUE, data |-> <<>>] }

\* a NovaPmReader and an ActiveModeReader over the stream
InitStream ==
    /\ emu = EmulatorInit
    /\ io = <<>>
    /\ ret = None
    /\ readers = {"NovaPmReader", "ActiveModeReader"}
    /\ pre = EmulatorInit
    /\ hist = None
    /\ CodecUnused /\ CycleUnused /\ DbUnused

\* _send_command on the stream: ser.write returns or raises
StreamSent(built, raised) ==
    IF ~built.ok THEN Did(emu, <<>>, built)
    ELSE Did(emu, <<WriteCall(built.val)>>,
             IF raised THEN [ok |-> FALSE, exc |-> SerialException]
             ELSE Ok(None))

\* a query_* method on the read outcome r
StreamQueried(cls, r) == Did(emu, <<ReadCall(r.data)>>, ReadAs(cls, r))

\* a read whose bytes go through a response class before they are dropped
StreamValidated(r) ==
    Did(emu, <<ReadCall(r.data)>>,
        IF ReadAs("SleepWakeReadResponse", r).ok THEN Ok(None)
        ELSE ReadAs("SleepWakeReadResponse", r))

\* self.ser_dev.read(10) with the bytes dropped
StreamDropped(r) ==
    Did(emu, <<ReadCall(r.data)>>,
        IF r.raised THEN [ok |-> FALSE, exc |-> SerialException]
        ELSE Ok(None))

\* set_active_mode / set_query_mode on the stream
StreamReportingModeSet(reporting_mode, passed, raised, r) ==
    LET set == AndThen(StreamSent(_set_reporting_mode(reporting_mode), raised),
                       Reopened(emu))
        confirm == StreamQueried("ReportingModeReadResponse", r) IN
    IF ~set.out.ok THEN set
    ELSE Did(emu, set.io \o confirm.io,
             IF confirm.out.ok \/ confirm.out.exc.type \in passed
             THEN Ok(None) ELSE confirm.out)

OnStream_set_active_mode ==
    \E raised \in WriteOutcomes, r \in StreamReads :
        Apply("NovaPmReader", "set_active_mode", <<>>,
              StreamReportingModeSet(ReportingMode_ACTIVE,
                  {"IncorrectCommandException", "IncompleteReadException"},
                  raised, r))

OnStream_set_query_mode ==
    \E raised \in WriteOutcomes, r \in StreamReads :
        Apply("NovaPmReader", "set_query_mode", <<>>,
              StreamReportingModeSet(ReportingMode_QUERYING,
                  {"IncorrectCommandException", "IncompleteReadException",
                   "IncorrectCommandCodeException"},
                  raised, r))

\* ActiveModeReader.wake, set_device_id, set_working_period on the stream
OnStream_wake ==
    \E raised \in WriteOutcomes, r \in StreamReads :
        Apply("ActiveModeReader", "ActiveModeReader.wake", <<>>,
              AndThen(StreamSent(wake, raised), StreamDropped(r)))

OnStream_set_device_id ==
    \E device_id \in DeviceIdInputs, target_device_id \in TargetIdInputs,
       raised \in WriteOutcomes, r \in StreamReads :
        Apply("ActiveModeReader", "ActiveModeReader.set_device_id",
              <<device_id, target_device_id>>,
              AndThen(StreamSent(set_device_id(device_id, target_device_id), raised),
                      StreamDropped(r)))

OnStream_set_working_period ==
    \E working_period \in WorkingPeriodInputs,
       raised \in WriteOutcomes, r \in StreamReads :
        Apply("ActiveModeReader", "ActiveModeReader.set_working_period",
              <<working_period>>,
              AndThen(StreamSent(set_working_period(working_period), raised),
                      StreamDropped(r)))

\* ActiveModeReader.sleep on the stream, and one turn of its loop
OnStream_sleep ==
    \E raised \in WriteOutcomes :
        Apply("ActiveModeReader", "ActiveModeReader.sleep", <<>>,
              Began(StreamSent(sleep, raised)))

OnStream_sleep_drain == \E r \in StreamReads : Drained(r)

NextStream ==
    \/ OnStream_set_active_mode \/ OnStream_set_query_mode
    \/ OnStream_wake \/ OnStream_set_device_id \/ OnStream_set_working_period
    \/ OnStream_sleep \/ OnStream_sleep_drain

SpecStream == InitStream /\ [][NextStream]_vars

(***************************************************************************)
(* database.py: table read_log.  A datetime is a number of half seconds,   *)
(* a stored event_time a number of whole seconds; pm values are counted in *)
(* tenths, the rounded averages of a result in hundredths.                 *)
(***************************************************************************)
\* int(t.timestamp()): the whole seconds of a datetime
Timestamp(t) == t \div 2

\* the (pm25, pm10) pairs handed to add_read, in tenths
Reads == { <<1, 3>>, <<2, 3>>, <<2, 4>> }

\* the event times handed to add_read: 0 s, 1 s, 1.5 s, 2 s
AddTimes == { 0, 2, 3, 4 }

ReadLogRow(event_time, pm25, pm10) ==
    [event_time |-> event_time, pm25 |-> pm25, pm10 |-> pm10]

InitDatabase ==
    /\ read_log = <<>>
    /\ ServerUnused /\ CodecUnused /\ DriverUnused /\ CycleUnused

\* a call on the database, as a step of the system
Executed(op, args, out) ==
    /\ ret' = Returned(op, args, out)
    /\ UNCHANGED <<emu, io, readers, pre, hist, codecVars, cycleVars, serverVars>>

\* add_read
add_read ==
    /\ Len(read_log) < MaxRows
    /\ \E event_time \in AddTimes, read \in Reads :
        /\ read_log' = Append(read_log,
                             ReadLogRow(Timestamp(event_time), read[1], read[2]))
        /\ Executed("add_read", <<event_time, read[1], read[2]>>, Ok(None))

\* MAX(event_time) / MIN(event_time) over rows: NULL over no rows
MaxEventTime(rows) ==
    IF rows = <<>> THEN None
    ELSE [time |-> CHOOSE t \in { rows[i].event_time : i \in DOMAIN rows } :
                      \A i \in DOMAIN rows : rows[i].event_time <= t]
MinEventTime(rows) ==
    IF rows = <<>> THEN None
    ELSE [time |-> CHOOSE t \in { rows[i].event_time : i \in DOMAIN rows } :
                      \A i \in DOMAIN rows : rows[i].event_time >= t]

\* ROUND(AVG(x), 2) of values in tenths, in hundredths; NULL over no rows
RoundAvg(values) ==
    IF values = <<>> THEN None
    ELSE [hundredths |-> (2 * 10 * SumBytes(values) + Len(values))
                             \div (2 * Len(values))]

\* the WHERE clause of get_averaged_reads without its second alternative
InWindowOnly(rows, lookback) ==
    SelectSeq(rows, LAMBDA row : row.event_time >= lookback)

\* the WHERE clause of get_averaged_reads
InWindowOrJustBefore(rows, lookback) ==
    LET before == SelectSeq(rows, LAMBDA row : row.event_time <= lookback)
        latest == MaxEventTime(before) IN
    SelectSeq(rows, LAMBDA row :
        \/ row.event_time >= lookback
        \/ latest # None /\ row.event_time = latest.time)

AveragedRead(avg_pm25, avg_pm10, count, oldest_read_time) ==
    [avg_pm25 |-> avg_pm25, avg_pm10 |-> avg_pm10, count |-> count,
     oldest_read_time |-> oldest_read_time]

\* get_averaged_reads: the aggregate query always yields one row, so
\* `result is None` never holds; over no rows MIN(event_time) is NULL and
\* datetime.fromtimestamp(None) raises TypeError.
get_averaged_reads_of(rows, lookback_to) ==
    LET selected == InWindowOrJustBefore(rows, Timestamp(lookback_to))
        oldest_time == MinEventTime(selected) IN
    IF oldest_time = None THEN Raise("TypeError", <<>>)
    ELSE Ok(AveragedRead(
             RoundAvg([i \in DOMAIN selected |-> selected[i].pm25]).hundredths,
             RoundAvg([i \in DOMAIN selected |-> selected[i].pm10]).hundredths,
             Len(selected),
             oldest_time.time))

get_averaged_reads ==
    \E lookback_to \in 0..MaxHalfSeconds :
        /\ Executed("get_averaged_reads", <<lookback_to>>,
                    get_averaged_reads_of(read_log, lookback_to))
        /\ UNCHANGED read_log

\* the retention periods handed to clean_old; one period of the model is
\* one whole second, as timedelta(minutes=n) is a whole number of seconds
Retentions == { 0, 1 }

\* the WHERE clause of clean_old with <= in place of <
ExpiredOrAtCutoff(row, last_week_timestamp) ==
    row.event_time <= last_week_timestamp

\* the WHERE clause of clean_old
Expired(row, last_week_timestamp) ==
    row.event_time < last_week_timestamp

\* the rows clean_old leaves in read_log when the clock reads `clock`
clean_old_of(rows, retention_minutes, clock) ==
    LET last_week == clock - 2 * retention_minutes
        last_week_timestamp == Timestamp(last_week) IN
    SelectSeq(rows, LAMBDA row : ~Expired(row, last_week_timestamp))

\* clean_old: datetime.now() is read from the clock (`clock`, a datetime not
\* before retention_minutes after the epoch); the rows before the call and
\* the clock's reading are kept with the call for the properties.
clean_old ==
    \E retention_minutes \in Retentions, clock \in 0..MaxHalfSeconds :
        LET last_week == clock - 2 * retention_minutes IN
        /\ last_week >= 0
        /\ read_log' = clean_old_of(read_log, retention_minutes, clock)
        /\ ret' = [op |-> "clean_old", args |-> <<retention_minutes>>,
                   out |-> Ok(None), clock |-> clock, before |-> read_log]
        /\ UNCHANGED <<emu, io, readers, pre, hist, codecVars, cycleVars,
                       serverVars>>

NextDatabase == add_read \/ get_averaged_reads \/ clean_old

SpecDatabase == InitDatabase /\ [][NextDatabase]_vars

(***************************************************************************)
(* aqi_common.py.  Concentrations are counted in hundredths.               *)
(***************************************************************************)
AQI == << <<0, 50>>, <<51, 100>>, <<101, 150>>, <<151, 200>>, <<201, 300>>,
          <<301, 500>> >>

PM_25 == << <<0, 1200>>, <<1210, 3540>>, <<3550, 5540>>, <<5550, 15040>>,
            <<15050, 25040>>, <<25050, 35040>>, <<35050, 50040>> >>

PM_10 == << <<0, 5400>>, <<5500, 15400>>, <<15500, 25400>>, <<25500, 35400>>,
            <<35500, 42400>>, <<42500, 50400>>, <<50500, 60400>> >>

Pollutants == { "PM_25", "PM_10" }

AQI_LOOKUP_MAP == [p \in Pollutants |-> IF p = "PM_25" THEN PM_25 ELSE PM_10]

PollutantReading(reading, pollutant) ==
    [reading |-> reading, pollutant |-> pollutant]

EpaAqi(reading, responsible_pollutant) ==
    [reading |-> reading, responsible_pollutant |-> responsible_pollutant]

\* round(num / den) of the exact fraction, halves to the even neighbour
RoundHalfEven(num, den) ==
    LET q == num \div den
        r == num % den IN
    IF 2 * r < den THEN q
    ELSE IF 2 * r > den THEN q + 1
    ELSE IF q % 2 = 0 THEN q ELSE q + 1

\* calculate_epa_aqi_raw: the first range that holds the reading decides;
\* AQI[i] of a range without a band raises IndexError
calculate_epa_aqi_raw(reading) ==
    LET ranges == AQI_LOOKUP_MAP[reading.pollutant]
        matching == { i \in DOMAIN ranges :
                        ranges[i][1] <= reading.reading
                        /\ reading.reading <= ranges[i][2] } IN
    IF matching = {} THEN Ok(-1)
    ELSE LET i == CHOOSE k \in matching : \A l \in matching : k <= l IN
         IF i \notin DOMAIN AQI THEN Raise("IndexError", <<>>)
         ELSE LET aqi_low == AQI[i][1]
                  aqi_high == AQI[i][2]
                  pm_low == ranges[i][1]
                  pm_high == ranges[i][2] IN
              Ok(RoundHalfEven((aqi_high - aqi_low) * (reading.reading - pm_low)
                                   + aqi_low * (pm_high - pm_low),
                               pm_high - pm_low))

\* calculate_epa_aqi: the worst value of the readings, the first of equals
calculate_epa_aqi(readings) ==
    LET first == calculate_epa_aqi_raw(readings[1])
        second == calculate_epa_aqi_raw(readings[2]) IN
    IF ~first.ok THEN first
    ELSE IF ~second.ok THEN second
    ELSE IF first.val < second.val
        THEN Ok(EpaAqi(second.val, readings[2].pollutant))
    ELSE Ok(EpaAqi(first.val, readings[1].pollutant))

\* both ends and the middle of every range, and a value just above it
AqiReadings(pollutant) ==
    LET ranges == AQI_LOOKUP_MAP[pollutant] IN
    UNION { { ranges[i][1], ranges[i][2],
              (ranges[i][1] + ranges[i][2]) \div 2, ranges[i][2] + 5 } :
            i \in DOMAIN ranges }

InitAqi ==
    /\ \E pollutant \in Pollutants :
        \E reading \in AqiReadings(pollutant) :
            pollutant_reading = PollutantReading(reading, pollutant)
    /\ epa_aqi_log = <<>> /\ now = 0 /\ next_schedule = None /\ config = None
    /\ read_log = <<>>
    /\ CodecUnused /\ DriverUnused /\ CycleUnused

Calculate ==
    /\ pollutant_reading # None /\ ret = None
    /\ Executed("calculate_epa_aqi_raw", <<pollutant_reading>>,
                calculate_epa_aqi_raw(pollutant_reading))
    /\ UNCHANGED read_log

NextAqi == Calculate

SpecAqi == InitAqi /\ [][NextAqi]_vars

(***************************************************************************)
(* server.py: read_function, the body of the polling task.  The retention  *)
(* and look-back periods are counted in whole seconds.                     *)
(***************************************************************************)
Config(poll_frequency_sec, retention_minutes, epa_lookback_minutes) ==
    [poll_frequency_sec |-> poll_frequency_sec,
     retention_minutes |-> retention_minutes,
     epa_lookback_minutes |-> epa_lookback_minutes]

\* what `await scheduled_reader.reader.read()` may do: a result in tenths
\* (0.1/0.3, 0.2/0.4, 400.0/0.3) or an error of the reader
ReaderResults ==
    { Ok(AqiRead(1, 3)), Ok(AqiRead(2, 4)), Ok(AqiRead(4000, 3)),
      Raise("SerialException", <<>>), Raise("Exception", <<>>) }

EpaAqiLogRow(event_time, epa_aqi, pollutant, read_count, oldest_read_time) ==
    [event_time |-> event_time, epa_aqi |-> epa_aqi, pollutant |-> pollutant,
     read_count |-> read_count, oldest_read_time |-> oldest_read_time]

POLLUTANT_MAP == [p \in Pollutants |-> IF p = "PM_10" THEN "PM10" ELSE "PM25"]

InitPoll ==
    /\ read_log = <<>> /\ epa_aqi_log = <<>>
    /\ now = 0 /\ next_schedule = None
    /\ pollutant_reading = None
    /\ config \in { Config(1, retention, lookback) :
                      retention \in Retentions, lookback \in {0, 1} }
    /\ CodecUnused /\ DriverUnused /\ CycleUnused

\* datetime.now() + timedelta(seconds=config.poll_frequency_sec)
Scheduled(clock) == [time |-> clock + 2 * config.poll_frequency_sec]

\* what one run of read_function did, kept for the properties
Polled(result, completed) ==
    ret' = [op |-> "read_function", args |-> <<>>, out |-> Ok(None),
            result |-> result, completed |-> completed,
            before |-> [read_log |-> read_log, epa_aqi_log |-> epa_aqi_log,
                        next_schedule |-> next_schedule]]

\* the except branch without its assignment to next_schedule
ExceptBranchNoSchedule(rows, clock, result) ==
    /\ read_log' = rows
    /\ now' = clock
    /\ Polled(result, FALSE)
    /\ UNCHANGED <<epa_aqi_log, next_schedule>>

\* except Exception: log.exception(..); next_schedule = now + frequency
ExceptBranch(rows, clock, result) ==
    /\ read_log' = rows
    /\ next_schedule' = Scheduled(clock)
    /\ now' = clock
    /\ Polled(result, FALSE)
    /\ UNCHANGED epa_aqi_log

\* read_function: the reader's read() returns or raises at from_reader;
\* the database calls follow, clean_old and the new schedule at cleaned.
read_function ==
    /\ Len(read_log) < MaxRows /\ Len(epa_aqi_log) < MaxRows
    /\ \E result \in ReaderResults, from_reader \in (now + 1)..(now + 2),
          wait \in 0..1 :
        LET event_time == from_reader
            cleaned == from_reader + wait
            added == Append(read_log,
                            ReadLogRow(Timestamp(event_time),
                                       result.val.pmtwofive, result.val.pmten))
            lookback_to == event_time - 2 * config.epa_lookback_minutes
            averaged_reads == get_averaged_reads_of(added, lookback_to)
            read_list == <<PollutantReading(averaged_reads.val.avg_pm25, "PM_25"),
                           PollutantReading(averaged_reads.val.avg_pm10, "PM_10")>>
            epa_aqi == calculate_epa_aqi(read_list) IN
        /\ cleaned <= MaxHalfSeconds
        /\ IF ~result.ok THEN ExceptBranch(read_log, from_reader, result)
           ELSE IF ~averaged_reads.ok \/ ~epa_aqi.ok
               THEN ExceptBranch(added, from_reader, result)
           ELSE /\ epa_aqi_log' = Append(epa_aqi_log,
                       EpaAqiLogRow(Timestamp(event_time), epa_aqi.val.reading,
                                    POLLUTANT_MAP[epa_aqi.val.responsible_pollutant],
                                    averaged_reads.val.count,
                                    averaged_reads.val.oldest_read_time))
                /\ read_log' = clean_old_of(added, config.retention_minutes, cleaned)
                /\ next_schedule' = Scheduled(cleaned)
                /\ now' = cleaned
                /\ Polled(result, TRUE)
    /\ UNCHANGED <<emu, io, readers, pre, hist, pollutant_reading, config,
                   codecVars, cycleVars>>

NextPoll == read_function

SpecPoll == InitPoll /\ [][NextPoll]_vars

(***************************************************************************)
(* The read cycle as its events show it.                                   *)
(***************************************************************************)
\* What an event is, read off the bytes written and the kind of read.
Label(ev) ==
    IF ev.ev = "status" THEN ev.state.status
    ELSE IF ev.ev = "read"
        THEN (IF ev.what = "data" THEN "data_read" ELSE "confirm_read")
    ELSE IF ev.data[3] = Command_QUERY THEN "request"
    ELSE IF /\ ev.data[3] = Command_SET_SLEEP
            /\ ev.data[4] = OperationType_SET_MODE
        THEN (IF ev.data[5] = SleepState_WORK THEN "wake" ELSE "sleep")
    ELSE "other"

Labels(evs) == [i \in DOMAIN evs |-> Label(evs[i])]

CountOf(evs, label) == Cardinality({ i \in DOMAIN evs : Label(evs[i]) = label })

\* n data requests, each followed by one data read
Rounds(n) == [i \in 1..(2 * n) |-> IF i % 2 = 1 THEN "request" ELSE "data_read"]

\* the events of a cycle of n samples in which nothing fails
CleanCycle(n) ==
    <<"wake", "confirm_read", "WARM_UP", "READING">> \o Rounds(n)
        \o <<"sleep", "confirm_read", "IDLE">>

Ended == pc = "idle" /\ outcome # None
EndedReturning == Ended /\ outcome.kind = "returned"
EndedRaising == Ended /\ outcome.kind = "raised"

\* C6: a read cycle that returns a result did, in this order: wake written
\* (and confirmed), WARM_UP, READING, `iterations` data requests each
\* followed by one data read, sleep written (and confirmed), IDLE; no
\* status it set carries an error and it ends IDLE with no retained error.
C6_CleanCycleOrder ==
    EndedReturning =>
        /\ Labels(events) = CleanCycle(iterations)
        /\ \A i \in DOMAIN events :
              events[i].ev = "status" => events[i].state.last_exception = None
        /\ state = ReaderState("IDLE", None)

\* C6 witness: a cycle of three samples returned its averaged pair.
C6_Witness ==
    /\ EndedReturning
    /\ iterations = 3
    /\ outcome.value.pmtwofive = [sum |-> 90, n |-> 3]

\* the data reads of a cycle, in order
DataReads(evs) == SelectSeq(evs, LAMBDA v : v.ev = "read" /\ v.what = "data")

\* the second data read of the cycle returned a short frame
SecondSampleShort ==
    /\ Len(DataReads(events)) >= 2
    /\ ~DataReads(events)[2].raised
    /\ Len(DataReads(events)[2].data) # 10

\* C7: with three samples configured, a cycle whose second data read is
\* short ends without a third sample, raising, with status ERRORING
\* retaining that sample's IncompleteReadException, and with the sleep
\* command handed to the stream exactly once.
C7_ShortSecondSampleAborts ==
    (Ended /\ iterations = 3 /\ SecondSampleShort) =>
        /\ CountOf(events, "request") = 2
        /\ CountOf(events, "data_read") = 2
        /\ outcome.kind = "raised"
        /\ state = ReaderState("ERRORING",
                     [type |-> "IncompleteReadException",
                      args |-> <<Len(DataReads(events)[2].data)>>,
                      site |-> <<"query_data", 1>>])
        /\ CountOf(events, "sleep") = 1

\* C7 witness: such a cycle ended, the second read having returned 5 bytes.
C7_Witness ==
    /\ Ended /\ iterations = 3 /\ SecondSampleShort
    /\ Len(DataReads(events)[2].data) = 5
    /\ state.status = "ERRORING"

\* C8 as claimed: the error read() raises is the failure its handler
\* caught, whatever the cleanup does.
C8_OriginalErrorRaised ==
    EndedRaising => outcome.exc = e

\* C9 as claimed: an invocation after a failed one starts with status IDLE,
\* and when nothing fails runs the full cycle and ends IDLE with no error.
C9_StartsFreshFromIdle ==
    /\ (pc = "wake" /\ previous = "raised") => state.status = "IDLE"
    /\ (EndedReturning /\ previous = "raised") =>
          /\ Labels(events) = CleanCycle(iterations)
          /\ state = ReaderState("IDLE", None)

\* C9 amended: ERRORING is not terminal.  An invocation after a failed one
\* starts with the status still ERRORING and the earlier error retained,
\* until its wake is confirmed and the status becomes WARM_UP with no
\* error; when nothing fails it runs the full cycle and ends IDLE with no
\* retained error.
C9_ErroringNotTerminal ==
    previous = "raised" =>
        /\ pc \in {"wake", "wake_confirm"} =>
              state.status = "ERRORING" /\ state.last_exception # None
        /\ pc = "warm_up" => state = ReaderState("WARM_UP", None)
        /\ EndedReturning =>
              /\ Labels(events) = CleanCycle(iterations)
              /\ state = ReaderState("IDLE", None)

\* C9 witness: an invocation that followed a failed one returned a result.
C9_Witness ==
    /\ EndedReturning
    /\ previous = "raised"
    /\ iterations = 2
    /\ state.status = "IDLE"

\* a data request or data read that failed
SampleFailure(ev) ==
    \/ ev.ev = "write" /\ Label(ev) = "request" /\ ev.raised
    \/ /\ ev.ev = "read" /\ ev.what = "data"
       /\ (ev.raised \/ ~QueryReadResponse(ev.data).ok)

\* the data requests among the first i events
RequestsUpTo(evs, i) == CountOf(SubSeq(evs, 1, i), "request")

\* C10: when sample k fails, whatever the error, exactly k data requests
\* were written in the cycle, no data request or data read follows the
\* failure, and no result is returned.
C10_NoRetry ==
    \A i \in DOMAIN events :
        SampleFailure(events[i]) =>
            /\ CountOf(events, "request") = RequestsUpTo(events, i)
            /\ \A j \in DOMAIN events :
                  j > i => Label(events[j]) \notin {"request", "data_read"}
            /\ ~EndedReturning

\* C10 witness: the third sample failed its checksum and the cycle ended.
C10_Witness ==
    /\ EndedRaising
    /\ e.type = "ChecksumFailedException"
    /\ e.site = <<"query_data", 2>>
    /\ CountOf(events, "request") = 3

\* the sampled values an invocation read, as raw integers (tenths)
SampledPm25(evs) == [i \in DOMAIN DataReads(evs) |->
                        QueryReadResponse(DataReads(evs)[i].data).val.pm25]
SampledPm10(evs) == [i \in DOMAIN DataReads(evs) |->
                        QueryReadResponse(DataReads(evs)[i].data).val.pm10]

\* A mean of raw tenths, sum / n, has at most 2 decimal places when
\* 10 * sum / n, its value in hundredths, is a whole number.
HasTwoDecimals(m) == (10 * m.sum) % m.n = 0

\* C11: the pair a successful cycle returns is, for pm2.5 and pm10
\* independently, the arithmetic mean of the sampled values rounded to 2
\* decimal places.
C11_MeanRoundedToTwoDecimals ==
    EndedReturning =>
        /\ outcome.value.pmtwofive = mean(SampledPm25(events))
        /\ outcome.value.pmten = mean(SampledPm10(events))
        /\ HasTwoDecimals(outcome.value.pmtwofive)
        /\ HasTwoDecimals(outcome.value.pmten)

\* the set-working-period command for a period: command 8, set, the period
SetWorkingPeriodCommand(f, working_period) ==
    /\ WellFormedCommand(f)
    /\ f[3] = Command_SET_WORKING_PERIOD
    /\ f[4] = OperationType_SET_MODE
    /\ f[5] = working_period

\* C12: set_working_period accepts 0, 1 and 29 and writes the
\* set-working-period command for that period; it rejects 30 and every
\* negative value with the invalid-parameter error (AttributeError).
C12_WorkingPeriodDomain ==
    (ret # None /\ ret.op = "set_working_period") =>
        LET working_period == ret.args[1] IN
        /\ working_period \in {0, 1, 29} =>
              /\ ret.out.ok
              /\ Len(io) = 1 /\ io[1].call = "write"
              /\ SetWorkingPeriodCommand(io[1].data, working_period)
        /\ (working_period = 30 \/ working_period < 0) =>
              /\ ~ret.out.ok
              /\ ret.out.exc.type = "AttributeError"

\* the three ways to set the working period or the device id
SetWorkingPeriodOps ==
    {"set_working_period", "QueryModeReader.set_working_period",
     "ActiveModeReader.set_working_period"}
SetDeviceIdOps ==
    {"set_device_id", "QueryModeReader.set_device_id",
     "ActiveModeReader.set_device_id"}

\* the device's mode, sleep state, working period and id
DeviceState(em) ==
    <<em.query_mode, em.sleep_state, em.working_period, em.device_id>>

\* C13: a set_working_period with a period outside 0..29, or a
\* set_device_id with an identifier that is not 2 bytes, also through the
\* QueryModeReader and ActiveModeReader wrappers, makes no stream call and
\* leaves the device's mode, sleep state, working period and id unchanged.
C13_ValidationBeforeIO ==
    (/\ ret # None
     /\ \/ ret.op \in SetWorkingPeriodOps /\ ret.args[1] \notin 0..29
        \/ ret.op \in SetDeviceIdOps
            /\ (Len(ret.args[1]) # 2 \/ Len(ret.args[2]) # 2))
    => /\ io = <<>>
       /\ ~ret.out.ok
       /\ DeviceState(emu) = DeviceState(pre)

\* the set-device-id command: command 5, the new id, the target id
SetDeviceIdCommand(f, device_id, target_device_id) ==
    /\ WellFormedCommand(f)
    /\ f[3] = Command_SET_DEVICE_ID
    /\ SubSeq(f, 14, 15) = device_id
    /\ SubSeq(f, 16, 17) = target_device_id

\* C14: set_device_id rejects with the invalid-parameter error every call
\* whose new id or target id is not exactly 2 bytes, before any stream
\* call, and accepts every call in which both are: the command goes out.
C14_DeviceIdLengths ==
    (ret # None /\ ret.op \in SetDeviceIdOps) =>
        LET device_id == ret.args[1]
            target_device_id == ret.args[2] IN
        IF Len(device_id) # 2 \/ Len(target_device_id) # 2
        THEN /\ ~ret.out.ok
             /\ ret.out.exc = [type |-> "AttributeError",
                               args |-> <<Len(device_id), Len(target_device_id)>>]
             /\ io = <<>>
        ELSE /\ ret.out.ok
             /\ Len(io) >= 1 /\ io[1].call = "write"
             /\ SetDeviceIdCommand(io[1].data, device_id, target_device_id)
             /\ emu.device_id = device_id

\* C14 witness: a 2-byte id with a 1-byte target was rejected.
C14_Witness ==
    /\ ret # None
    /\ ret.op = "set_device_id"
    /\ ret.args = << <<18, 35>>, <<1>> >>
    /\ ~ret.out.ok
    /\ io = <<>>

\* the call before the last, and the one before that
Called(i, op) ==
    /\ hist # None
    /\ Len(hist.calls) >= i
    /\ hist.calls[Len(hist.calls) + 1 - i] = [op |-> op, ok |-> TRUE]

\* C15: set_query_mode() returns, and after it request_reporting_mode()
\* followed by query_reporting_mode() returns state QUERYING, whatever
\* calls came before.
C15_QueryModeReported ==
    /\ (ret # None /\ ret.op = "set_query_mode") =>
          ret.out.ok /\ emu.query_mode = ReportingMode_QUERYING
    /\ (/\ Called(2, "set_query_mode")
        /\ Called(1, "request_reporting_mode")
        /\ ret.op = "query_reporting_mode")
       => /\ ret.out.ok
          /\ ret.out.val.state = ReportingMode_QUERYING

\* C15 witness: set_query_mode() on a device in ACTIVE mode, then the
\* request, then the query that returned.
C15_Witness ==
    /\ Called(2, "set_query_mode")
    /\ Called(1, "request_reporting_mode")
    /\ ret.op = "query_reporting_mode"
    /\ ret.out.ok
    /\ emu.query_mode = ReportingMode_QUERYING

\* C16: right after set_active_mode() has returned, each of
\* query_reporting_mode(), query_sleep_state(), query_working_period() and
\* query_firmware_version() fails with IncorrectCommandException and
\* returns no response.
C16_QueriesFailInActiveMode ==
    (/\ Called(1, "set_active_mode")
     /\ ret.op \in {"query_reporting_mode", "query_sleep_state",
                    "query_working_period", "query_firmware_version"})
    => /\ ~ret.out.ok
       /\ ret.out.exc.type = "IncorrectCommandException"

\* QueryModeReader's methods that ask the device something
QueryModeReaderGetOps ==
    {"QueryModeReader.query", "QueryModeReader.get_reporting_mode",
     "QueryModeReader.get_sleep_state", "QueryModeReader.get_working_period",
     "QueryModeReader.get_firmware_version"}

\* C17: in QUERYING mode, with the device put to sleep by
\* QueryModeReader.sleep(), query() and every other request-then-read
\* operation fails with IncompleteReadException; with the device awake
\* again after wake(), query() returns data.
C17_AsleepDoesNotAnswer ==
    (ret # None /\ pre.query_mode = ReportingMode_QUERYING) =>
        /\ (ret.op \in QueryModeReaderGetOps
            /\ pre.sleep_state = SleepState_SLEEP)
           => /\ ~ret.out.ok
              /\ ret.out.exc.type = "IncompleteReadException"
        /\ (ret.op = "QueryModeReader.query"
            /\ pre.sleep_state = SleepState_WORK)
           => ret.out.ok

\* C18: in QUERYING mode a set_working_period(n) issued while the device
\* is asleep does not change the device's working period, which
\* query_working_period() reports after wake().
C18_AsleepKeepsWorkingPeriod ==
    (/\ ret # None
     /\ ret.op = "set_working_period"
     /\ pre.query_mode = ReportingMode_QUERYING
     /\ pre.sleep_state = SleepState_SLEEP)
    => emu.working_period = pre.working_period

\* the mode a facade forces
FacadeMode(cls) ==
    IF cls = "QueryModeReader" THEN ReportingMode_QUERYING
    ELSE ReportingMode_ACTIVE

\* C19: constructing a mode facade, whatever reporting mode and sleep
\* state the device is in, completes without raising and leaves the device
\* awake and in the facade's mode, its working period and id as they were;
\* on a device already awake and in that mode the device state is
\* unchanged.
C19_ConstructionForcesMode ==
    (ret # None /\ ret.op \in {"QueryModeReader", "ActiveModeReader"}) =>
        /\ ret.out.ok
        /\ ret.op \in readers
        /\ emu.sleep_state = SleepState_WORK
        /\ emu.query_mode = FacadeMode(ret.op)
        /\ emu.working_period = pre.working_period
        /\ emu.device_id = pre.device_id
        /\ (pre.sleep_state = SleepState_WORK
            /\ pre.query_mode = FacadeMode(ret.op))
           => DeviceState(emu) = DeviceState(pre)

\* C19 witness: a QueryModeReader made over a device asleep in ACTIVE mode.
C19_Witness ==
    /\ ret # None
    /\ ret.op = "QueryModeReader"
    /\ pre.query_mode = ReportingMode_ACTIVE
    /\ pre.sleep_state = SleepState_SLEEP
    /\ emu.query_mode = ReportingMode_QUERYING
    /\ emu.sleep_state = SleepState_WORK

\* the writes and reads among stream calls
WritesAndReads(calls) ==
    SelectSeq(calls, LAMBDA c : c.call \in {"write", "read"})

\* every write is followed by one read before the next write
OneReadPerWrite(calls) ==
    LET wr == WritesAndReads(calls) IN
    /\ Len(wr) % 2 = 0
    /\ \A i \in DOMAIN wr : wr[i].call = (IF i % 2 = 1 THEN "write" ELSE "read")

\* a call refused for its parameters, before any stream call
RefusedForParameters ==
    /\ ~ret.out.ok
    /\ ret.out.exc.type \in {"AttributeError", "ValueError"}
    /\ \/ ret.op = "QueryModeReader.set_working_period"
       \/ ret.op = "QueryModeReader.set_device_id"

QueryModeReaderOps ==
    QueryModeReaderGetOps
    \cup {"QueryModeReader.sleep", "QueryModeReader.wake",
          "QueryModeReader.set_device_id",
          "QueryModeReader.set_working_period"}

\* C20: every QueryModeReader method that gets past its parameter check
\* makes exactly one command write followed by exactly one stream read,
\* whether it returns or raises, and the constructor does so twice; so
\* writes and reads are equal in number when no operation is executing and
\* no command is written before the answer to the one before was read.
C20_OneOutstandingRequest ==
    /\ (ret # None /\ ret.op \in QueryModeReaderOps) =>
          IF io = <<>> THEN RefusedForParameters
          ELSE /\ Len(io) = 2
               /\ io[1].call = "write"
               /\ io[2].call = "read"
    /\ (ret # None /\ ret.op = "QueryModeReader") =>
          /\ Len(WritesAndReads(io)) = 4
          /\ OneReadPerWrite(io)

\* C20 witness: get_reporting_mode() of a QueryModeReader raised, the
\* device being in ACTIVE mode, after its one write and one read.
C20_Witness ==
    /\ ret # None
    /\ ret.op = "QueryModeReader.get_reporting_mode"
    /\ ~ret.out.ok
    /\ Len(io) = 2

\* the request_* methods, and the command each writes
RequestOps ==
    {"request_data", "request_reporting_mode", "request_sleep_state",
     "request_working_period", "request_firmware_version"}

CommandOf(op) ==
    CASE op = "request_data" -> Command_QUERY
      [] op = "request_reporting_mode" -> Command_SET_REPORTING_MODE
      [] op = "request_sleep_state" -> Command_SET_SLEEP
      [] op = "request_working_period" -> Command_SET_WORKING_PERIOD
      [] op = "request_firmware_version" -> Command_CHECK_FIRMWARE_VERSION

QueryOps ==
    {"query_data", "query_reporting_mode", "query_sleep_state",
     "query_working_period", "query_firmware_version"}

\* a full frame that answers the command of a request_* method
AnswersTo(f, op) ==
    /\ Len(f) = 10
    /\ IF op = "request_data" THEN f[2] = QUERY_RESPONSE
       ELSE f[2] = GENERAL_RESPONSE /\ f[3] = CommandOf(op)

C22_FirstCommandAnswered ==
    (/\ Called(3, "request_sleep_state")
     /\ Called(2, "request_firmware_version")
     /\ Called(1, "request_working_period")
     /\ ret.op = "query_sleep_state"
     /\ pre.query_mode = ReportingMode_QUERYING)
    => /\ ret.out.ok
       /\ ret.out.val.state = emu.sleep_state

\* the errors of decoding a received buffer
DecodeErrors ==
    {"IncompleteReadException", "IncorrectWrapperException",
     "ChecksumFailedException", "IncorrectCommandException",
     "IncorrectCommandCodeException", "ValueError"}

\* C23: ActiveModeReader.wake(), set_device_id() and set_working_period()
\* with accepted arguments write one command and then make one 10-byte
\* read whose result is dropped without validation: they raise no decode
\* error whatever frame (full, short, corrupted) the device returns.  Only
\* the stream's own failure of a call ends them early.
C23_OneWriteOneDroppedRead ==
    (/\ ret # None
     /\ ret.op \in {"ActiveModeReader.wake", "ActiveModeReader.set_device_id",
                    "ActiveModeReader.set_working_period"}
     /\ io # <<>>)
    => /\ io[1].call = "write"
       /\ Len(io) <= 2
       /\ Len(io) = 2 => io[2].call = "read"
       /\ IF ret.out.ok THEN Len(io) = 2
          ELSE ret.out.exc.type = "SerialException"

\* C23 witness: wake() returned after reading a frame with a bad checksum.
C23_Witness ==
    /\ ret # None
    /\ ret.op = "ActiveModeReader.wake"
    /\ ret.out.ok
    /\ Len(io) = 2
    /\ io[2].data = [DataFrame(25, 100) EXCEPT ![9] = (@ + 1) % 256]

\* C24: ActiveModeReader.sleep() writes the sleep command once and then
\* reads and drops frames: it returns exactly when a read yields fewer than
\* 10 bytes, and has not returned while every read yielded a full frame.
C24_SleepDrains ==
    (ret # None /\ ret.op = "ActiveModeReader.sleep") =>
        /\ io # <<>>
        /\ io[1] = WriteCall(sleep.val)
        /\ \A i \in 2..Len(io) : io[i].call = "read"
        /\ \A i \in 2..(Len(io) - 1) : Len(io[i].data) = 10
        /\ IF ret.out = Executing
           THEN \A i \in 2..Len(io) : Len(io[i].data) = 10
           ELSE IF ret.out.ok
           THEN Len(io) >= 2 /\ Len(io[Len(io)].data) < 10
           ELSE ret.out.exc.type = "SerialException"

\* C24 witness: sleep() returned after two full frames and a short one.
C24_Witness ==
    /\ ret # None
    /\ ret.op = "ActiveModeReader.sleep"
    /\ ret.out = Ok(None)
    /\ Len(io) = 4
    /\ Len(io[2].data) = 10 /\ Len(io[3].data) = 10
    /\ Len(io[4].data) = 5

\* whether the stream is open after the calls: open when the reader gets
\* it, then as the last close or open left it
IsOpen(calls) ==
    LET turns == SelectSeq(calls, LAMBDA c : c.call \in {"close", "open"}) IN
    turns = <<>> \/ turns[Len(turns)].call = "open"

ModeChangeOps == {"set_active_mode", "set_query_mode"}

ModeOf(op) ==
    IF op = "set_active_mode" THEN ReportingMode_ACTIVE
    ELSE ReportingMode_QUERYING

\* C26: every change of the reporting mode performs, in this order and
\* before any read: the write of the mode-change command, the close of the
\* stream, its open; the stream is open again at the confirmation read and
\* when the operation ends.  A write the stream refuses ends the operation
\* before anything else.
C26_WriteCloseOpenRead ==
    (ret # None /\ ret.op \in ModeChangeOps) =>
        /\ io # <<>>
        /\ io[1] = WriteCall(_set_reporting_mode(ModeOf(ret.op)).val)
        /\ IF Len(io) = 1
           THEN ~ret.out.ok /\ ret.out.exc.type = "SerialException"
           ELSE /\ Len(io) = 4
                /\ io[2] = CloseCall
                /\ io[3] = OpenCall
                /\ io[4].call = "read"
                /\ IsOpen(SubSeq(io, 1, 3))
                /\ IsOpen(io)

\* C26 witness: set_query_mode() returned, its confirmation read last.
C26_Witness ==
    /\ ret # None
    /\ ret.op = "set_query_mode"
    /\ ret.out.ok
    /\ Len(io) = 4
    /\ io[4].data = ReportingModeFrame(OperationType_SET_MODE,
                                       ReportingMode_QUERYING)

\* C27: the confirmation read after a mode change is tolerated when it
\* fails: set_active_mode() and set_query_mode() return normally whatever
\* the read yields: a short or empty read, a wrong response type, a
\* general frame of another command, a corrupted frame.
C27_ConfirmationTolerated ==
    (/\ ret # None
     /\ ret.op \in ModeChangeOps
     /\ Len(io) = 4
     /\ ~ret.out.ok)
    => ret.out.exc.type = "SerialException"

\* sleep() of an ActiveModeReader is in its loop / has returned
SleepDraining ==
    ret # None /\ ret.op = "ActiveModeReader.sleep" /\ ret.out = Executing
SleepReturned ==
    ret # None /\ ret.op = "ActiveModeReader.sleep" /\ ret.out = Ok(None)

\* ActiveModeReader.query() on a device in ACTIVE mode whose last command
\* was the given one
QueryAfter(cmd) ==
    /\ ret # None
    /\ ret.op = "ActiveModeReader.query"
    /\ pre.query_mode = ReportingMode_ACTIVE
    /\ pre.last_write # None
    /\ pre.last_write.raw_data = cmd.val

\* C25: against the emulated device in ACTIVE mode ActiveModeReader.sleep()
\* eventually returns; a query() after the sleep command fails with
\* IncompleteReadException; a query() after wake() returns data.
C25_SleepReturnsAndSilences ==
    /\ SleepDraining ~> SleepReturned
    /\ [](QueryAfter(sleep) =>
            ~ret.out.ok /\ ret.out.exc.type = "IncompleteReadException")
    /\ [](QueryAfter(wake) => ret.out.ok)

\* NovaPmReader's methods that read and decode a response
DecodingOps == QueryOps \cup {"query_device_id"}

\* C28: against the emulated device, after set_device_id(id) with a 2-byte
\* id and the broadcast target, the confirmation and every later response to
\* any command carry device id = id, until the id is set again; in QUERYING
\* mode and, for data frames, in ACTIVE mode.
C28_DeviceIdCarried ==
    ret # None =>
        /\ (ret.op = "set_device_id" /\ ret.out.ok) =>
               emu.device_id = ret.args[1]
        /\ ret.op # "set_device_id" => emu.device_id = pre.device_id
        /\ (ret.op \in DecodingOps /\ ret.out.ok) =>
               ret.out.val.device_id = emu.device_id

\* C28 witness: in QUERYING mode query_reporting_mode() returned a response
\* with the id BB AA set before.
C28_Witness ==
    /\ ret # None
    /\ ret.op = "query_reporting_mode"
    /\ ret.out.ok
    /\ pre.query_mode = ReportingMode_QUERYING
    /\ ret.out.val.device_id = <<187, 170>>

\* read() ended by the cancellation of its task
EndedCancelled == Ended /\ outcome.kind = "cancelled"

\* C29: when a read cycle is cancelled while suspended in the warm-up wait
\* or in an inter-sample wait, the orchestrator still writes a sleep
\* command before the cancellation leaves read().
C29_CancelledStillSleeps ==
    EndedCancelled =>
        \E i \in DOMAIN events :
            events[i].ev = "write" /\ events[i].data = sleep.val

\* the rows (as indices of read_log) at or after a datetime, not after it,
\* and the most recent among those not after it
AtOrAfter(t) == { i \in DOMAIN read_log : 2 * read_log[i].event_time >= t }
NotAfter(t) == { i \in DOMAIN read_log : 2 * read_log[i].event_time <= t }
LatestNotAfter(t) ==
    { i \in NotAfter(t) :
        \A j \in NotAfter(t) : read_log[j].event_time <= read_log[i].event_time }

\* the sum of a column over a set of rows
RECURSIVE SumOver(_, _)
SumOver(rows, column) ==
    IF rows = {} THEN 0
    ELSE LET i == CHOOSE j \in rows : TRUE IN
         read_log[i][column] + SumOver(rows \ {i}, column)

\* the least event_time among rows
OldestOf(rows) ==
    CHOOSE t \in { read_log[i].event_time : i \in rows } :
        \A i \in rows : read_log[i].event_time >= t

\* h hundredths is the average of a column over rows / that average
\* rounded to the nearest hundredth, halves upwards
IsAverage(h, rows, column) ==
    h * Cardinality(rows) = 10 * SumOver(rows, column)
IsRoundedAverage(h, rows, column) ==
    LET n == Cardinality(rows)
        twice == 2 * 10 * SumOver(rows, column) + n IN
    2 * h * n <= twice /\ twice < 2 * (h + 1) * n

AveragedReadsCalled == ret # None /\ ret.op = "get_averaged_reads"

CleanOldCalled == ret # None /\ ret.op = "clean_old"

\* the datetime now - retention_minutes of a clean_old call, in half seconds
CutoffOf(call) == call.clock - 2 * call.args[1]

\* C31 as stated: clean_old(retention_minutes) removes from read_log exactly
\* the rows whose event_time is earlier than now minus retention_minutes and
\* leaves every other row unchanged, after any sequence of add_read calls.
C31_RemovesRowsBeforeCutoff ==
    CleanOldCalled =>
        read_log = SelectSeq(ret.before,
            LAMBDA row : ~(2 * row.event_time < CutoffOf(ret)))

\* C31, amended: clean_old(retention_minutes) removes from read_log exactly
\* the rows whose event_time lies a whole second or more before now minus
\* retention_minutes (the rows of earlier seconds than the cutoff's own) and
\* leaves every other row unchanged, in its place and order.
C31_RemovesRowsOfEarlierSeconds ==
    CleanOldCalled =>
        read_log = SelectSeq(ret.before,
            LAMBDA row : ~(2 * (row.event_time + 1) <= CutoffOf(ret)))

\* C31 witness: of four rows at 0 s, 1 s, 1 s and 2 s, clean_old with the
\* cutoff at 1.5 s removes the row at 0 s only.
C31_Witness ==
    /\ CleanOldCalled
    /\ CutoffOf(ret) = 3
    /\ Len(ret.before) = 4
    /\ ret.before[1].event_time = 0 /\ ret.before[2].event_time = 1
    /\ ret.before[3].event_time = 1 /\ ret.before[4].event_time = 2
    /\ read_log = SubSeq(ret.before, 2, 4)

(***************************************************************************)
(* The handler of read() and the end of a cycle.                           *)
(***************************************************************************)
IsStatus(ev, status) == ev.ev = "status" /\ ev.state.status = status
IsSleepWrite(ev) == ev.ev = "write" /\ ev.data = sleep.val

\* C32: on a failed read cycle the cleanup sleep command is attempted before
\* the status becomes ERRORING: whenever a cycle has set ERRORING, a sleep
\* command was written earlier in that cycle.
C32_SleepAttemptedBeforeErroring ==
    \A i \in DOMAIN events :
        IsStatus(events[i], "ERRORING") =>
            \E j \in 1..(i - 1) : IsSleepWrite(events[j])

\* the sleep-state commands (wake, sleep) written in a cycle, as labels
SleepStateCommands(evs) ==
    SelectSeq(Labels(evs), LAMBDA label : label \in {"wake", "sleep"})

AcceptedWrites(evs) ==
    \A i \in DOMAIN evs : evs[i].ev = "write" => ~evs[i].raised

\* C35: when read() ends by returning a result or by raising an error and no
\* write on the stream raised, the cycle wrote a wake command and the last
\* sleep-state command it wrote is SLEEP.
C35_EndsAsleep ==
    (Ended /\ outcome.kind \in {"returned", "raised"} /\ AcceptedWrites(events)) =>
        LET cmds == SleepStateCommands(events) IN
        /\ cmds # <<>>
        /\ cmds[1] = "wake"
        /\ cmds[Len(cmds)] = "sleep"

\* C35 witness: a cycle whose second sample failed to decode raised that
\* driver error after writing wake, two requests and one sleep.
C35_Witness ==
    /\ EndedRaising /\ AcceptedWrites(events)
    /\ outcome.exc.type \notin {"SerialException", "StatisticsError"}
    /\ outcome.exc.site = <<"query_data", 1>>
    /\ SleepStateCommands(events) = <<"wake", "sleep">>
    /\ CountOf(events, "request") = 2

\* C39: within one invocation of read(), once the status has been set to
\* IDLE the status is not set to ERRORING and no sleep command is written,
\* for every configured sample count including 0.
C39_IdleIsFinal ==
    \A i \in DOMAIN events :
        IsStatus(events[i], "IDLE") =>
            \A j \in (i + 1)..Len(events) :
                ~IsStatus(events[j], "ERRORING") /\ ~IsSleepWrite(events[j])

(***************************************************************************)
(* The snapshot of get_state(), for both readers.                          *)
(***************************************************************************)
ErrorIffErroring(st) == (st.last_exception # None) <=> (st.status = "ERRORING")

\* C34: in every reachable state of an OpinionatedReader or a MockReader,
\* suspended in a wait or not, the snapshot of get_state() has a retained
\* last_exception if and only if its status is ERRORING, and so has every
\* snapshot the reader ever assigned.
C34_ErrorIffErroring ==
    /\ ErrorIffErroring(state)
    /\ \A i \in DOMAIN events :
           events[i].ev = "status" => ErrorIffErroring(events[i].state)

\* C34 witness: an OpinionatedReader whose last cycle raised is suspended in
\* an inter-sample wait of the next one with status READING and no error.
C34_Witness ==
    /\ pc = "sample_wait"
    /\ previous = "raised"
    /\ state = ReaderState("READING", None)

(***************************************************************************)
(* Decoded readings and the kinds of decoding failures.                    *)
(***************************************************************************)
Decoded(cls) == decoded # None /\ klass = cls

\* C33: for every validated query-data frame the decoded pm25 is the
\* unsigned 16-bit little-endian integer of data bytes 1-2 (in tenths) and
\* pm10 the one of data bytes 3-4, both in 0..65535, and the device id is
\* data bytes 5-6.
C33_ReadingsLittleEndian ==
    (Decoded("QueryReadResponse") /\ decoded.out.ok) =>
        LET data == SubSeq(buffer, 3, 8)
            response == decoded.out.val IN
        /\ response.pm25 = data[1] + 256 * data[2]
        /\ response.pm10 = data[3] + 256 * data[4]
        /\ response.pm25 \in 0..65535 /\ response.pm10 \in 0..65535
        /\ response.device_id = <<data[5], data[6]>>

\* C33 witness: the frame with data 19 01 02 01 01 02 read from the stream
\* decodes to pm25 = 28.1, pm10 = 25.8 and device id 01 02.
C33_Witness ==
    /\ Decoded("QueryReadResponse") /\ decoded.via = "read" /\ decoded.out.ok
    /\ SubSeq(buffer, 3, 8) = <<25, 1, 2, 1, 1, 2>>
    /\ decoded.out.val.pm25 = 281 /\ decoded.out.val.pm10 = 258
    /\ decoded.out.val.device_id = <<1, 2>>

\* the subclasses of Sds011Exception a response class raises
ResponseErrors ==
    { "IncompleteReadException", "IncorrectWrapperException",
      "ChecksumFailedException", "IncorrectCommandException",
      "IncorrectCommandCodeException" }

\* C36: every failure to turn a received 10-byte buffer into a typed
\* response is one of the driver's own error kinds.
C36_OnlyDriverErrors ==
    (decoded # None /\ Len(buffer) = 10 /\ ~decoded.out.ok) =>
        decoded.out.exc.type \in ResponseErrors

(***************************************************************************)
(* calculate_epa_aqi_raw.                                                  *)
(***************************************************************************)
\* the indices of the listed ranges that hold a reading
RangesHolding(reading) ==
    LET ranges == AQI_LOOKUP_MAP[reading.pollutant] IN
    { i \in DOMAIN ranges :
        ranges[i][1] <= reading.reading /\ reading.reading <= ranges[i][2] }

\* C38: for a reading inside one of the 7 ranges of its pollutant,
\* calculate_epa_aqi_raw returns an integer in 0..500 inside the AQI band of
\* that range's index; it returns -1 only for a reading inside no range.
C38_AqiInsideBand ==
    (ret # None /\ ret.op = "calculate_epa_aqi_raw") =>
        LET reading == ret.args[1] IN
        IF RangesHolding(reading) = {}
        THEN ret.out.ok /\ ret.out.val = -1
        ELSE /\ ret.out.ok
             /\ ret.out.val \in 0..500
             /\ \E i \in RangesHolding(reading) :
                    /\ i \in DOMAIN AQI
                    /\ AQI[i][1] <= ret.out.val /\ ret.out.val <= AQI[i][2]

(***************************************************************************)
(* The polling task.                                                       *)
(***************************************************************************)
PolledOnce == ret # None /\ ret.op = "read_function"

\* C37: when reader.read() raises in a poll, read_function still returns,
\* no row is added to read_log or epa_aqi_log, and next_schedule is set to a
\* new, non-empty value: the time of the failure plus the poll frequency, as
\* after a successful poll; later polls still run.
C37_FailedReadIsContained ==
    (PolledOnce /\ ~ret.result.ok) =>
        /\ ret.out.ok
        /\ read_log = ret.before.read_log
        /\ epa_aqi_log = ret.before.epa_aqi_log
        /\ next_schedule # None
        /\ next_schedule # ret.before.next_schedule
        /\ next_schedule.time = now + 2 * config.poll_frequency_sec
        /\ (now + 1 <= MaxHalfSeconds /\ Len(read_log) < MaxRows
               /\ Len(epa_aqi_log) < MaxRows) => ENABLED read_function

\* C37 witness: after a successful poll that stored a row in each table, a
\* poll whose read raised left both tables alone and moved the schedule.
C37_Witness ==
    /\ PolledOnce /\ ~ret.result.ok
    /\ Len(read_log) = 1 /\ Len(epa_aqi_log) = 1
    /\ ret.before.next_schedule # None
    /\ next_schedule.time > ret.before.next_schedule.time

\* C40: after each completed poll neither read_log nor epa_aqi_log holds an
\* entry whose event_time is older than now minus retention_minutes.
C40_RetentionBoundsBothLogs ==
    (PolledOnce /\ ret.completed) =>
        LET cutoff == now - 2 * config.retention_minutes IN
        /\ \A i \in DOMAIN read_log : ~(2 * read_log[i].event_time < cutoff)
        /\ \A i \in DOMAIN epa_aqi_log :
               ~(2 * epa_aqi_log[i].event_time < cutoff)

====
